---------------------------- MODULE Spec2Model ----------------------------
(***************************************************************************)
(* A model of mcphub's resilient storage layer and tool-embedding store:   *)
(*   - the retry executor          (src/src/utils/dbRetry.ts)              *)
(*   - the connection manager      (src/unnamed/part_002, db/connection)   *)
(*   - the tool-embedding writer   (src/src/services/vectorSearchService)  *)
(* Each part has its own specification over its own variables; the other   *)
(* parts' variables stay unchanged under it.                               *)
(***************************************************************************)
EXTENDS Integers, Sequences, FiniteSets, TLC

(***************************************************************************)
(* STATE                                                                   *)
(***************************************************************************)

\* a call of withDbRetry (src/utils/dbRetry.ts)
VARIABLES
  rPc,        \* where the withDbRetry call is: idle | calling | sleeping | returned | thrown
  rOptions,   \* the options of the call (dbRetry.ts:185)
  rAttempt,   \* the loop variable attempt (dbRetry.ts:196)
  rCalls,     \* how often operation() was invoked in this call
  rSleeps,    \* how often sleep() was awaited in this call
  rDelay,     \* delayMs of the last retry (dbRetry.ts:208)
  rOnRetry,   \* the onRetry calls of this call: <<attempt, delayMs>> each
  rLast,      \* what the last operation() threw (the catch variable error)
  rThrown     \* what withDbRetry threw

retryVars == <<rPc, rOptions, rAttempt, rCalls, rSleeps, rDelay, rOnRetry, rLast, rThrown>>

\* the connection manager (part_002)
VARIABLES
  appDataSource,          \* part_002:80; 0 is null, else the id of a DataSource
  dsUrl,                  \* DataSource.options.url of each DataSource object
  dsInit,                 \* DataSource.isInitialized of each DataSource object
  dsCount,                \* DataSource objects created so far
  cfgUrl,                 \* the URL getDatabaseUrl() returns now (part_002:52-54)
  initializationPromise,  \* part_002:83; null, or a pending / resolved / rejected promise
  healthCheckInterval,    \* part_002:27; TRUE when the timer is set
  isHealthy,              \* part_002:28
  lastHealthCheckError,   \* part_002:29; NoError is null
  reconnectionInProgress, \* part_002:30
  perf,                   \* the running performDatabaseInitialization calls
  client,                 \* the callers of initializeDatabase / reconnectDatabase
  recon,                  \* the runs of attemptReconnection
  probe,                  \* the runs of checkDatabaseHealth
  closer,                 \* the caller of closeDatabase
  left                    \* the calls, ticks, closes and URL changes the run may still make

dbVars == <<appDataSource, dsUrl, dsInit, dsCount, cfgUrl,
            initializationPromise, healthCheckInterval, isHealthy,
            lastHealthCheckError, reconnectionInProgress, perf, client, recon,
            probe, closer, left>>

\* the tool-embedding writer (src/services/vectorSearchService.ts)
VARIABLES
  colWidth,   \* the declared width of vector_embeddings.embedding; 0 is none
  records,    \* the dimensions column of the record of each key; 0 is no record
  index,      \* the index on the embedding column and the dimensions it was built for
  saver,      \* the calls of saveToolsAsVectorEmbeddings
  savesLeft   \* the calls the run may still make

vecVars == <<colWidth, records, index, saver, savesLeft>>

\* the catalog sync job (the callers of removeServerToolEmbeddings)
VARIABLES
  removesLeft \* the calls of removeServerToolEmbeddings the run may still make

syncVars == <<removesLeft>>

\* the discovery engine (part_001)
VARIABLES
  serverInfos,            \* what getServerInfos() returns (part_001:16-17, 47-49)
  filterToolsByConfigFn,  \* part_001:18; the <<server, tool>> pairs it passes
  filterToolsByGroupFn,   \* part_001:19-23; the pairs it passes for the session's group
  group,                  \* what getGroup(sessionId) returns (part_001:278)
  serversInGroup,         \* what getServersInGroup(targetGroup) resolves with (part_001:287)
  progressiveDisclosure,  \* smartRoutingConfig.progressiveDisclosure (part_001:303)
  hits,                   \* the records searchByText finds (vectorSearchService.ts:459-465)
  response,               \* what the last handleSearchToolsRequest returned or threw
  described               \* what the last handleDescribeToolRequest returned

srchVars == <<serverInfos, filterToolsByConfigFn, filterToolsByGroupFn, group,
              serversInGroup, progressiveDisclosure, hits, response, described>>

\* the process-level error handlers (src/index.ts)
VARIABLES
  consecutiveFatalErrors, \* index.ts:10
  lastFatalErrorTime,     \* index.ts:13
  exited,                 \* TRUE once process.exit(1) was called
  clock,                  \* what Date.now() returns
  handled,                \* the last call of a handler: the error it got and
                          \* the counter and timestamp it found
  fatalTimes              \* the times of the errors that were not retryable

procVars ==
  <<consecutiveFatalErrors, lastFatalErrorTime, exited, clock, handled, fatalTimes>>

\* the functions without state
VARIABLES
  applied     \* the last call of one of them: its name, arguments and result

\* the database server the connection manager talks to
VARIABLES
  store       \* up: it is reachable and stays so; beat: the parity of the
              \* health-check timer's firings since then

\* what the steps of one part leave alone
notRetry == <<dbVars, vecVars, syncVars, srchVars, procVars, applied, store>>
notDbStore == <<retryVars, vecVars, syncVars, srchVars, procVars, applied>>
notDb == <<notDbStore, store>>
notVec == <<retryVars, dbVars, syncVars, srchVars, procVars, applied, store>>
notSync == <<retryVars, dbVars, srchVars, procVars, applied, store>>
notSrch == <<retryVars, dbVars, vecVars, syncVars, procVars, applied, store>>
notProc == <<retryVars, dbVars, vecVars, syncVars, srchVars, applied, store>>

(***************************************************************************)
(* Bounds of the model.                                                    *)
(***************************************************************************)
\* largest maxRetries a retry policy of the model carries
MaxRetriesBound == 2

Min(a, b) == IF a <= b THEN a ELSE b
Max(a, b) == IF a >= b THEN a ELSE b

RECURSIVE Pow(_, _)
Pow(b, e) == IF e = 0 THEN 1 ELSE b * Pow(b, e - 1)

(***************************************************************************)
(* RETRY EXECUTOR  (src/src/utils/dbRetry.ts)                              *)
(***************************************************************************)

\* dbRetry.ts:34-53
RETRYABLE_ERROR_CODES ==
  { "ECONNRESET", "ECONNREFUSED", "ETIMEDOUT", "ENOTFOUND", "ENETUNREACH",
    "EHOSTUNREACH", "EPIPE", "EAI_AGAIN", "PROTOCOL_CONNECTION_LOST",
    "ER_CON_COUNT_ERROR", "57P01", "57P02", "57P03", "08000", "08003",
    "08006", "08001", "08004" }

\* dbRetry.ts:58-76.  A pattern /a.*b/i is the sequence of its literal parts;
\* it matches a message in which the parts occur in this order.
RETRYABLE_ERROR_PATTERNS ==
  { <<"connection", "reset">>, <<"connection", "closed">>,
    <<"connection", "lost">>, <<"connection", "terminated">>,
    <<"connection", "refused">>, <<"connection", "timeout">>,
    <<"connection", "failed">>, <<"network", "error">>,
    <<"socket", "hang", "up">>, <<"read", "econnreset">>,
    <<"write", "econnreset">>, <<"cannot", "connect">>,
    <<"server", "closed">>, <<"client", "closed">>,
    <<"pool", "exhausted">>, <<"too", "many", "connections">>,
    <<"database", "unavailable">> }

\* the /i flag: case folding of the words the model's messages use
Lower(w) ==
  CASE w = "Connection" -> "connection"
    [] w = "ECONNRESET" -> "econnreset"
    [] OTHER -> w

\* pattern.test(message): the parts of pat occur in msg, in order.  A message
\* is the sequence of its words.
RECURSIVE PatternTest(_, _)
PatternTest(pat, msg) ==
  IF pat = <<>> THEN TRUE
  ELSE IF msg = <<>> THEN FALSE
  ELSE IF Lower(Head(msg)) = Head(pat) THEN PatternTest(Tail(pat), Tail(msg))
  ELSE PatternTest(pat, Tail(msg))

\* A thrown value.  kind "Error" is an Error instance, "object" a plain object
\* that is not an Error, "string" a thrown string.  "" and <<>> stand for an
\* absent field; hasDriver tells whether err.driverError is set.
Throwable(kind, code, errno, hasDriver, driverCode, message, driverMessage) ==
  [ kind |-> kind, code |-> code, errno |-> errno, hasDriver |-> hasDriver,
    driverCode |-> driverCode, message |-> message,
    driverMessage |-> driverMessage ]

ErrReset      == Throwable("Error", "ECONNRESET", "", FALSE, "", <<"read", "ECONNRESET">>, <<>>)
ErrAdminStop  == Throwable("Error", "", "", TRUE, "57P01", <<"terminating", "session">>, <<>>)
ErrTerminated == Throwable("Error", "", "", FALSE, "", <<"Connection", "terminated", "unexpectedly">>, <<>>)
ErrDriverMsg  == Throwable("Error", "", "", TRUE, "", <<"query", "failed">>, <<"server", "closed", "the", "connection">>)
ErrErrno      == Throwable("Error", "", "EPIPE", FALSE, "", <<"write", "failed">>, <<>>)
ErrUnique     == Throwable("Error", "23505", "", TRUE, "23505", <<"duplicate", "key", "value">>, <<"duplicate", "key", "value">>)
ErrSyntax     == Throwable("Error", "42601", "", FALSE, "", <<"syntax", "error">>, <<>>)
ErrPlainObj   == Throwable("object", "ETIMEDOUT", "", FALSE, "", <<>>, <<>>)
ErrString     == Throwable("string", "", "", FALSE, "", <<"connection", "reset">>, <<>>)

\* the values the model's operations throw
Throwables ==
  { ErrReset, ErrAdminStop, ErrTerminated, ErrDriverMsg, ErrErrno, ErrUnique,
    ErrSyntax, ErrPlainObj, ErrString }

\* dbRetry.ts:81-132
isRetryableDbError(error) ==
  IF error.kind = "string" THEN FALSE   \* typeof error !== 'object'
  ELSE \/ (error.code # "" /\ error.code \in RETRYABLE_ERROR_CODES)
       \/ (error.errno # "" /\ error.errno \in RETRYABLE_ERROR_CODES)
       \/ (error.hasDriver /\ error.driverCode # "" /\
             error.driverCode \in RETRYABLE_ERROR_CODES)
       \/ (error.message # <<>> /\
             \E p \in RETRYABLE_ERROR_PATTERNS : PatternTest(p, error.message))
       \/ (error.hasDriver /\ error.driverMessage # <<>> /\
             \E p \in RETRYABLE_ERROR_PATTERNS : PatternTest(p, error.driverMessage))

\* dbRetry.ts:200: error instanceof Error ? error : new Error(String(error)).
\* The wrapper is a fresh Error whose only content is the string form.
ToError(error) ==
  IF error.kind = "Error" THEN error
  ELSE Throwable("Error", "", "", FALSE, "",
                 IF error.kind = "string" THEN error.message
                 ELSE <<"[object", "Object]">>, <<>>)


\* dbRetry.ts:23-29
DEFAULT_MAX_RETRIES == 3
DEFAULT_INITIAL_DELAY_MS == 1000
DEFAULT_MAX_DELAY_MS == 30000
DEFAULT_BACKOFF_MULTIPLIER == 2
DEFAULT_OPTIONS ==
  [ maxRetries |-> DEFAULT_MAX_RETRIES, initialDelayMs |-> DEFAULT_INITIAL_DELAY_MS,
    maxDelayMs |-> DEFAULT_MAX_DELAY_MS, backoffMultiplier |-> DEFAULT_BACKOFF_MULTIPLIER,
    jitter |-> "true" ]

\* an option the caller leaves out
Absent == -1

\* The RetryOptions a caller of the model passes (dbRetry.ts:6-21).  jitter is
\* "true", "false" or "absent"; a number is Absent when the caller omits it.
RetryOptionsSet ==
  [ maxRetries : {Absent} \cup (0 .. MaxRetriesBound),
    initialDelayMs : {4},
    maxDelayMs : {6, 7, 16},
    backoffMultiplier : {2},
    jitter : {"absent", "false"},
    onRetry : BOOLEAN ]

\* dbRetry.ts:187-190: { ...DEFAULT_OPTIONS, ...options }
MergeOptions(options) ==
  [ maxRetries |-> IF options.maxRetries = Absent THEN DEFAULT_OPTIONS.maxRetries
                   ELSE options.maxRetries,
    initialDelayMs |-> IF options.initialDelayMs = Absent THEN DEFAULT_OPTIONS.initialDelayMs
                       ELSE options.initialDelayMs,
    maxDelayMs |-> IF options.maxDelayMs = Absent THEN DEFAULT_OPTIONS.maxDelayMs
                   ELSE options.maxDelayMs,
    backoffMultiplier |-> IF options.backoffMultiplier = Absent
                          THEN DEFAULT_OPTIONS.backoffMultiplier
                          ELSE options.backoffMultiplier,
    jitter |-> IF options.jitter = "absent" THEN DEFAULT_OPTIONS.jitter = "true"
               ELSE options.jitter = "true",
    onRetry |-> options.onRetry ]

\* dbRetry.ts:145-148, without the backoff
CappedDelay_NoBackoff(attempt, initialDelayMs, maxDelayMs, backoffMultiplier) ==
  Min(initialDelayMs, maxDelayMs)

\* dbRetry.ts:145-148: min(initialDelayMs * backoffMultiplier^(attempt-1), maxDelayMs)
CappedDelay(attempt, initialDelayMs, maxDelayMs, backoffMultiplier) ==
  Min(initialDelayMs * Pow(backoffMultiplier, attempt - 1), maxDelayMs)

\* dbRetry.ts:137-158.  The set of values calculateDelay can return: without
\* jitter the capped delay; with jitter Math.max(0, Math.round(capped + off))
\* for some off in [-capped/4, capped/4) (Math.random() is in [0, 1)).  n is
\* Math.round(x) iff n - 1/2 <= x < n + 1/2, so n is a result iff the
\* intervals [3c/4, 5c/4) and [n - 1/2, n + 1/2) meet.
calculateDelay(attempt, initialDelayMs, maxDelayMs, backoffMultiplier, jitter) ==
  LET c == CappedDelay(attempt, initialDelayMs, maxDelayMs, backoffMultiplier)
  IN  IF ~jitter \/ c = 0 THEN {c}
      ELSE { n \in 0 .. (2 * c) : 3 * c < 4 * n + 2 /\ 4 * n - 2 < 5 * c }

\* the value no error has
NoError == Throwable("none", "", "", FALSE, "", <<>>, <<>>)



InitRetry ==
  /\ rPc = "idle"
  /\ rOptions = [maxRetries |-> Absent, initialDelayMs |-> 4, maxDelayMs |-> 6,
                 backoffMultiplier |-> 2, jitter |-> "absent", onRetry |-> FALSE]
  /\ rAttempt = 0
  /\ rCalls = 0
  /\ rSleeps = 0
  /\ rDelay = 0
  /\ rOnRetry = <<>>
  /\ rLast = NoError
  /\ rThrown = NoError

\* dbRetry.ts:203, the loop's exit test changed as an off-by-one would
RethrowNow_OffByOne(attempt, maxRetries, error) ==
  attempt >= maxRetries \/ ~isRetryableDbError(error)

\* dbRetry.ts:203: if (attempt > maxRetries || !isRetryableDbError(error)) throw
RethrowNow(attempt, maxRetries, error) ==
  attempt > maxRetries \/ ~isRetryableDbError(error)

\* dbRetry.ts:183-198: the call starts; attempt = 1 and, when the loop's
\* condition attempt <= maxRetries + 1 holds, operation() is invoked.
withDbRetry_Start ==
  /\ rPc = "idle"
  /\ \E o \in RetryOptionsSet :
       /\ rOptions' = o
       /\ rAttempt' = 1
       /\ rSleeps' = 0
       /\ rDelay' = 0
       /\ rOnRetry' = <<>>
       /\ rLast' = NoError
       /\ rThrown' = NoError
       /\ IF 1 <= MergeOptions(o).maxRetries + 1
          THEN rPc' = "calling" /\ rCalls' = 1
          ELSE \* dbRetry.ts:233, the loop never ran
               rPc' = "thrown" /\ rCalls' = 0
  /\ UNCHANGED notRetry

\* dbRetry.ts:198: operation() resolves; its value is returned
withDbRetry_Success ==
  /\ rPc = "calling"
  /\ rPc' = "returned"
  /\ rLast' = NoError
  /\ UNCHANGED <<rOptions, rAttempt, rCalls, rSleeps, rDelay, rOnRetry, rThrown>>
  /\ UNCHANGED notRetry

\* dbRetry.ts:199-228: operation() throws error
withDbRetry_Failure ==
  /\ rPc = "calling"
  /\ \E error \in Throwables :
       LET o == MergeOptions(rOptions)
       IN  /\ rLast' = error
           /\ IF RethrowNow(rAttempt, o.maxRetries, error)
              THEN /\ rPc' = "thrown"
                   /\ rThrown' = ToError(error)
                   /\ UNCHANGED <<rDelay, rOnRetry, rSleeps>>
              ELSE \E d \in calculateDelay(rAttempt, o.initialDelayMs, o.maxDelayMs,
                                           o.backoffMultiplier, o.jitter) :
                     /\ rDelay' = d
                     /\ rOnRetry' = IF o.onRetry THEN Append(rOnRetry, <<rAttempt, d>>)
                                    ELSE rOnRetry
                     /\ rSleeps' = rSleeps + 1
                     /\ rPc' = "sleeping"
                     /\ UNCHANGED rThrown
  /\ UNCHANGED <<rOptions, rAttempt, rCalls>>
  /\ UNCHANGED notRetry

\* dbRetry.ts:228 and 196-198: sleep(delayMs) ends, attempt++ and, the loop's
\* condition holding, operation() is invoked again
withDbRetry_Wake ==
  /\ rPc = "sleeping"
  /\ rAttempt' = rAttempt + 1
  /\ IF rAttempt + 1 <= MergeOptions(rOptions).maxRetries + 1
     THEN rPc' = "calling" /\ rCalls' = rCalls + 1 /\ UNCHANGED rThrown
     ELSE rPc' = "thrown" /\ rThrown' = ToError(rLast) /\ UNCHANGED rCalls
  /\ UNCHANGED <<rOptions, rSleeps, rDelay, rOnRetry, rLast>>
  /\ UNCHANGED notRetry

\* the caller has the result; the next call may start
withDbRetry_Done ==
  /\ rPc \in {"returned", "thrown"}
  /\ rPc' = "idle"
  /\ UNCHANGED <<rOptions, rAttempt, rCalls, rSleeps, rDelay, rOnRetry, rLast, rThrown>>
  /\ UNCHANGED notRetry

NextRetry ==
  \/ withDbRetry_Start
  \/ withDbRetry_Success
  \/ withDbRetry_Failure
  \/ withDbRetry_Wake
  \/ withDbRetry_Done


(***************************************************************************)
(* STORAGE CONNECTION MANAGER  (src/unnamed/part_002)                      *)
(*                                                                         *)
(* Every await of the code is a point where the other flows may run; an    *)
(* action is the code between two awaits.                                  *)
(***************************************************************************)

\* concurrent callers of initializeDatabase() / reconnectDatabase()
NClients == 2
\* health-check probes that may overlap (setInterval does not wait for one)
NProbes == 2
\* slots for runs of attemptReconnection
NRecons == 1
\* how often the configured database URL changes
MaxUrlChanges == 1
\* runs of initializeDatabase() alone: the calls made
InitCalls == 3
\* runs of the whole connection manager: the calls of initializeDatabase()
\* and reconnectDatabase(), the timer's ticks and the calls of closeDatabase()
DbCalls == 2
DbTicks == 2
DbCloses == 1
\* CONNECTION_CONFIG.maxConnectionRetries of the model (part_002:18, default 5)
MaxConnectionRetries == 2

Clients == 1 .. NClients
Probes == 1 .. NProbes
Recons == 1 .. NRecons
\* a DataSource is made when there is none and when the URL changed
DSIds == 1 .. (MaxUrlChanges + 1)
\* a performDatabaseInitialization call per client and per reconnect run
PerfIds == 1 .. (NClients + NRecons)
Urls == {"u1", "u2"}

\* part_002:363: new Error('Database not initialized')
ErrNotInitialized ==
  Throwable("Error", "", "", FALSE, "", <<"Database", "not", "initialized">>, <<>>)

\* what a statement sent to the store fails with: a transient or a permanent error
DbErrors == {ErrReset, ErrSyntax}

\* a promise of performDatabaseInitialization: null, pending (call t), or
\* settled (resolved / rejected)
NullPromise == [st |-> "null", t |-> 0]
Pending(t) == [st |-> "pending", t |-> t]


FreePerf   == [pc |-> "free", res |-> 0, owner |-> "none"]
IdleClient == [pc |-> "idle", op |-> "none", p |-> 0, ds |-> 0]
IdleRecon  == [pc |-> "idle", attempt |-> 0, inits |-> 0, p |-> 0, ds |-> 0,
               err |-> NoError]
IdleProbe  == [pc |-> "idle", ds |-> 0, err |-> NoError]
IdleCloser == [pc |-> "idle", ds |-> 0, duringReconnect |-> FALSE]

\* part_002:26-30, 80, 83: the module's state when it is loaded
InitDbState ==
  /\ appDataSource = 0
  /\ dsUrl = [d \in DSIds |-> "none"]
  /\ dsInit = [d \in DSIds |-> FALSE]
  /\ dsCount = 0
  /\ cfgUrl = "u1"
  /\ initializationPromise = NullPromise
  /\ healthCheckInterval = FALSE
  /\ isHealthy = FALSE
  /\ lastHealthCheckError = NoError
  /\ reconnectionInProgress = FALSE
  /\ perf = [t \in PerfIds |-> FreePerf]
  /\ client = [c \in Clients |-> IdleClient]
  /\ recon = [r \in Recons |-> IdleRecon]
  /\ probe = [h \in Probes |-> IdleProbe]
  /\ closer = IdleCloser

\* part_002:340-342
isDatabaseConnected ==
  IF appDataSource # 0 THEN dsInit[appDataSource] ELSE FALSE

\* part_002:345-357
getDatabaseHealth ==
  [ connected |-> isDatabaseConnected, healthy |-> isHealthy,
    lastError |-> lastHealthCheckError, reconnecting |-> reconnectionInProgress ]

\* part_002:86-105: whether updateDataSourceConfig makes a new DataSource
NeedsNewDataSource ==
  IF appDataSource # 0 THEN dsUrl[appDataSource] # cfgUrl ELSE TRUE

\* part_002:86-105: the DataSource updateDataSourceConfig returns
UpdatedDataSource ==
  IF NeedsNewDataSource THEN dsCount + 1 ELSE appDataSource

\* part_002:86-105: the body of updateDataSourceConfig after its await of
\* getDefaultConfig(): a changed URL replaces the DataSource and resets the
\* initialization promise.  The caller's `appDataSource = await ...` resumes
\* in the same run of the microtask queue and assigns the DataSource this
\* body returned (UpdatedDataSource), which appDataSource already is.
updateDataSourceConfig ==
  IF NeedsNewDataSource
  THEN /\ dsCount' = dsCount + 1
       /\ dsUrl' = [dsUrl EXCEPT ![dsCount + 1] = cfgUrl]
       /\ appDataSource' = dsCount + 1
  ELSE UNCHANGED <<dsCount, dsUrl, appDataSource>>

\* part_002:93-98: initializationPromise after updateDataSourceConfig
PromiseAfterUpdate ==
  IF appDataSource # 0 /\ dsUrl[appDataSource] # cfgUrl THEN NullPromise
  ELSE initializationPromise

\* the environment: the configured database URL changes
ConfigChange ==
  /\ left.urls > 0
  /\ \E u \in Urls \ {cfgUrl} : cfgUrl' = u
  /\ left' = [left EXCEPT !.urls = left.urls - 1]
  /\ UNCHANGED <<appDataSource, dsUrl, dsInit, dsCount, initializationPromise,
                 healthCheckInterval, isHealthy, lastHealthCheckError,
                 reconnectionInProgress, perf, client, recon, probe, closer>>
  /\ UNCHANGED notDb

(***************************************************************************)
(* performDatabaseInitialization  (part_002:171-337)                       *)
(***************************************************************************)

\* a free slot for a performDatabaseInitialization call
FreePerfId == CHOOSE t \in PerfIds : perf[t].pc = "free"

\* the promise of call t settles: every flow awaiting it becomes runnable
\* with the outcome, and the promise variable, if it holds t, holds a settled
\* promise
SettledClients(t, ok) ==
  [ c \in Clients |->
      IF client[c].p = t /\ client[c].pc \in {"await", "shared"}
      THEN [ client[c] EXCEPT
               !.pc = IF client[c].pc = "await"
                      THEN (IF ok THEN "gotOk" ELSE "gotErr")
                      ELSE (IF ok THEN "retOk" ELSE "retErr"),
               !.p = 0 ]
      ELSE client[c] ]

SettledRecons(t, ok, err) ==
  [ r \in Recons |->
      IF recon[r].p = t /\ recon[r].pc = "initwait"
      THEN [ recon[r] EXCEPT !.pc = IF ok THEN "initOk" ELSE "initErr",
                             !.p = 0, !.err = err ]
      ELSE recon[r] ]

SettledPromise(ip, t, ok) ==
  IF ip = Pending(t)
  THEN [st |-> IF ok THEN "resolved" ELSE "rejected", t |-> 0]
  ELSE ip

\* part_002:174-179 and 332: updateDataSourceConfig() runs in call t; an
\* uninitialized DataSource is initialized, an initialized one is returned
\* at once
Perf_Config(t) ==
  /\ perf[t].pc = "config"
  /\ updateDataSourceConfig
  /\ IF ~dsInit[UpdatedDataSource]
     THEN /\ perf' = [perf EXCEPT ![t].pc = "connect", ![t].res = UpdatedDataSource]
          /\ initializationPromise' = PromiseAfterUpdate
          /\ UNCHANGED <<client, recon>>
     ELSE /\ perf' = [perf EXCEPT ![t] = FreePerf]
          /\ client' = SettledClients(t, TRUE)
          /\ recon' = SettledRecons(t, TRUE, NoError)
          /\ initializationPromise' = SettledPromise(PromiseAfterUpdate, t, TRUE)
  /\ UNCHANGED <<dsInit, cfgUrl, healthCheckInterval, isHealthy,
                 lastHealthCheckError, reconnectionInProgress, probe, closer, left>>
  /\ UNCHANGED notDb

\* part_002:179: appDataSource.initialize() resolves
Perf_Connected(t) ==
  /\ perf[t].pc = "connect"
  /\ dsInit' = [dsInit EXCEPT ![perf[t].res] = TRUE]
  /\ perf' = [perf EXCEPT ![t].pc = "setup"]
  /\ UNCHANGED <<appDataSource, dsUrl, dsCount, cfgUrl,
                 initializationPromise, healthCheckInterval, isHealthy,
                 lastHealthCheckError, reconnectionInProgress, client, recon,
                 probe, closer, left>>
  /\ UNCHANGED notDb

\* part_002:179 and 333-336: appDataSource.initialize() rejects (the store is
\* not reachable for good); the error is re-thrown
Perf_ConnectFailed(t) ==
  /\ perf[t].pc = "connect"
  /\ ~store.up
  /\ \E e \in DbErrors :
       /\ client' = SettledClients(t, FALSE)
       /\ recon' = SettledRecons(t, FALSE, e)
       /\ initializationPromise' = SettledPromise(initializationPromise, t, FALSE)
  /\ perf' = [perf EXCEPT ![t] = FreePerf]
  /\ UNCHANGED <<appDataSource, dsUrl, dsInit, dsCount, cfgUrl,
                 healthCheckInterval, isHealthy, lastHealthCheckError,
                 reconnectionInProgress, probe, closer, left>>
  /\ UNCHANGED notDb

\* part_002:180-332: the extensions and the vector column are set up (every
\* failure in there is caught) and the DataSource is returned
Perf_SetupDone(t) ==
  /\ perf[t].pc = "setup"
  /\ client' = SettledClients(t, TRUE)
  /\ recon' = SettledRecons(t, TRUE, NoError)
  /\ initializationPromise' = SettledPromise(initializationPromise, t, TRUE)
  /\ perf' = [perf EXCEPT ![t] = FreePerf]
  /\ UNCHANGED <<appDataSource, dsUrl, dsInit, dsCount, cfgUrl,
                 healthCheckInterval, isHealthy, lastHealthCheckError,
                 reconnectionInProgress, probe, closer, left>>
  /\ UNCHANGED notDb

(***************************************************************************)
(* initializeDatabase  (part_002:137-168)                                  *)
(***************************************************************************)

\* part_002:139-151: the part of initializeDatabase before its await, run by
\* client c (op tells which exported function the client called); app is
\* appDataSource and ip initializationPromise as the call finds them.  A
\* promise that is set is returned as it is; an initialized DataSource is
\* returned; otherwise a new performDatabaseInitialization call is started
\* and awaited.
initializeDatabase(c, op, app, ip) ==
  IF ip.st = "pending"
  THEN /\ client' = [client EXCEPT ![c] = [IdleClient EXCEPT !.pc = "shared", !.op = op,
                                             !.p = ip.t]]
       /\ initializationPromise' = ip
       /\ UNCHANGED perf
  ELSE IF ip.st \in {"resolved", "rejected"}
  THEN /\ client' = [client EXCEPT ![c] =
                       [IdleClient EXCEPT
                          !.pc = IF ip.st = "resolved" THEN "retOk" ELSE "retErr",
                          !.op = op]]
       /\ initializationPromise' = ip
       /\ UNCHANGED perf
  ELSE IF app # 0 /\ dsInit[app]
  THEN /\ client' = [client EXCEPT ![c] = [IdleClient EXCEPT !.pc = "retOk", !.op = op]]
       /\ initializationPromise' = ip
       /\ UNCHANGED perf
  ELSE /\ perf' = [perf EXCEPT ![FreePerfId] =
                     [pc |-> "config", res |-> 0, owner |-> op]]
       /\ initializationPromise' = Pending(FreePerfId)
       /\ client' = [client EXCEPT ![c] = [IdleClient EXCEPT !.pc = "await", !.op = op,
                                             !.p = FreePerfId]]

\* no call of client c is in flight: it never called, or has its result
\* (retOk: the promise resolved, retErr: it rejected)
Returned(c) == client[c].pc \in {"idle", "retOk", "retErr"}

\* the next call is made by the first client with no call in flight
NextCaller(c) == Returned(c) /\ \A d \in Clients : Returned(d) => c <= d

\* a client calls initializeDatabase()
Init_Call(c) ==
  /\ NextCaller(c)
  /\ initializeDatabase(c, "initialize", appDataSource, initializationPromise)
  /\ closer' = [closer EXCEPT !.duringReconnect = FALSE]
  /\ UNCHANGED <<appDataSource, dsUrl, dsInit, dsCount, cfgUrl,
                 healthCheckInterval, isHealthy, lastHealthCheckError,
                 reconnectionInProgress, recon, probe>>
  /\ left.calls > 0
  /\ left' = [left EXCEPT !.calls = left.calls - 1]
  /\ UNCHANGED notDb

\* part_002:391-406: startHealthCheck sets the timer unless it is set
\* (CONNECTION_CONFIG.enableHealthCheck is true by default)
startHealthCheck == healthCheckInterval' = TRUE

\* part_002:153-167, the catch leaving the rejected promise in place
Init_Resume_KeepsPromise(c) ==
  /\ client[c].pc \in {"gotOk", "gotErr"}
  /\ IF client[c].pc = "gotOk"
     THEN /\ isHealthy' = TRUE
          /\ startHealthCheck
          /\ client' = [client EXCEPT ![c].pc = "retOk"]
          /\ UNCHANGED initializationPromise
     ELSE /\ client' = [client EXCEPT ![c].pc = "retErr"]
          /\ UNCHANGED <<isHealthy, healthCheckInterval, initializationPromise>>
  /\ UNCHANGED <<appDataSource, dsUrl, dsInit, dsCount, cfgUrl,
                 lastHealthCheckError, reconnectionInProgress, perf, recon,
                 probe, closer, left>>
  /\ UNCHANGED notDb

\* part_002:153-167: the promise the client started has settled.  Success:
\* isHealthy = true and the health check is started; failure: the promise
\* variable is reset and the error re-thrown.
Init_Resume(c) ==
  /\ client[c].pc \in {"gotOk", "gotErr"}
  /\ IF client[c].pc = "gotOk"
     THEN /\ isHealthy' = TRUE
          /\ startHealthCheck
          /\ client' = [client EXCEPT ![c].pc = "retOk"]
          /\ UNCHANGED initializationPromise
     ELSE /\ initializationPromise' = NullPromise
          /\ client' = [client EXCEPT ![c].pc = "retErr"]
          /\ UNCHANGED <<isHealthy, healthCheckInterval>>
  /\ UNCHANGED <<appDataSource, dsUrl, dsInit, dsCount, cfgUrl,
                 lastHealthCheckError, reconnectionInProgress, perf, recon,
                 probe, closer, left>>
  /\ UNCHANGED notDb

(***************************************************************************)
(* reconnectDatabase  (part_002:116-134)                                   *)
(***************************************************************************)

\* part_002:117-128: a client calls reconnectDatabase(); an initialized
\* DataSource is destroyed first, else the promise is reset at once and
\* updateDataSourceConfig() is called
Rd_Call(c) ==
  /\ NextCaller(c)
  /\ IF isDatabaseConnected
     THEN /\ client' = [client EXCEPT ![c] = [IdleClient EXCEPT !.pc = "rdDestroy",
                                                !.op = "reconnect", !.ds = appDataSource]]
          /\ UNCHANGED initializationPromise
     ELSE /\ client' = [client EXCEPT ![c] = [IdleClient EXCEPT !.pc = "rdConfig",
                                                !.op = "reconnect"]]
          /\ initializationPromise' = NullPromise
  /\ closer' = [closer EXCEPT !.duringReconnect = FALSE]
  /\ UNCHANGED <<appDataSource, dsUrl, dsInit, dsCount, cfgUrl,
                 healthCheckInterval, isHealthy, lastHealthCheckError,
                 reconnectionInProgress, perf, recon, probe>>
  /\ left.calls > 0
  /\ left' = [left EXCEPT !.calls = left.calls - 1]
  /\ UNCHANGED notDb

\* part_002:121-128: destroy() resolves; the promise is reset
Rd_Destroyed(c) ==
  /\ client[c].pc = "rdDestroy"
  /\ dsInit' = [dsInit EXCEPT ![client[c].ds] = FALSE]
  /\ initializationPromise' = NullPromise
  /\ client' = [client EXCEPT ![c].pc = "rdConfig", ![c].ds = 0]
  /\ UNCHANGED <<appDataSource, dsUrl, dsCount, cfgUrl,
                 healthCheckInterval, isHealthy, lastHealthCheckError,
                 reconnectionInProgress, perf, recon, probe, closer, left>>
  /\ UNCHANGED notDb

\* part_002:121 and 130-133: destroy() rejects; the error is re-thrown
Rd_DestroyFailed(c) ==
  /\ client[c].pc = "rdDestroy"
  /\ client' = [client EXCEPT ![c].pc = "retErr", ![c].ds = 0]
  /\ UNCHANGED <<appDataSource, dsUrl, dsInit, dsCount, cfgUrl,
                 initializationPromise, healthCheckInterval, isHealthy,
                 lastHealthCheckError, reconnectionInProgress, perf, recon,
                 probe, closer, left>>
  /\ UNCHANGED notDb

\* part_002:128-129: updateDataSourceConfig() runs, then
\* initializeDatabase() is called
Rd_Config(c) ==
  /\ client[c].pc = "rdConfig"
  /\ updateDataSourceConfig
  /\ initializeDatabase(c, "reconnect", UpdatedDataSource, PromiseAfterUpdate)
  /\ UNCHANGED <<dsInit, cfgUrl, healthCheckInterval, isHealthy,
                 lastHealthCheckError, reconnectionInProgress, recon, probe,
                 closer, left>>
  /\ UNCHANGED notDb

(***************************************************************************)
(* attemptReconnection  (part_002:418-476)                                 *)
(***************************************************************************)

\* a free slot for a run of attemptReconnection
FreeReconId == CHOOSE r \in Recons : recon[r].pc = "idle"

\* part_002:419-449: the part of attemptReconnection before its first await.
\* The flag is tested and set in one step; an initialized DataSource is
\* destroyed first, else the promise is reset and attempt 1 starts (the
\* loop's test holds for it: maxConnectionRetries is at least 1).
attemptReconnection ==
  IF reconnectionInProgress
  THEN UNCHANGED <<reconnectionInProgress, recon, initializationPromise>>
  ELSE /\ reconnectionInProgress' = TRUE
       /\ IF isDatabaseConnected
          THEN /\ recon' = [recon EXCEPT ![FreeReconId] =
                              [IdleRecon EXCEPT !.pc = "destroy", !.ds = appDataSource]]
               /\ UNCHANGED initializationPromise
          ELSE /\ recon' = [recon EXCEPT ![FreeReconId] =
                              [IdleRecon EXCEPT !.pc = "config", !.attempt = 1]]
               /\ initializationPromise' = NullPromise

\* part_002:432-449: destroy() settles (a rejection is caught); the promise
\* is reset and attempt 1 starts with updateDataSourceConfig()
Rc_DestroySettled(r) ==
  /\ recon[r].pc = "destroy"
  /\ \/ dsInit' = [dsInit EXCEPT ![recon[r].ds] = FALSE]
     \/ UNCHANGED dsInit
  /\ initializationPromise' = NullPromise
  /\ recon' = [recon EXCEPT ![r].pc = "config", ![r].attempt = 1, ![r].ds = 0]
  /\ UNCHANGED <<appDataSource, dsUrl, dsCount, cfgUrl,
                 healthCheckInterval, isHealthy, lastHealthCheckError,
                 reconnectionInProgress, perf, client, probe, closer, left>>
  /\ UNCHANGED notDb

\* part_002:449-450: updateDataSourceConfig() runs, then
\* performDatabaseInitialization() is called and awaited
Rc_Config(r) ==
  /\ recon[r].pc = "config"
  /\ updateDataSourceConfig
  /\ perf' = [perf EXCEPT ![FreePerfId] =
                [pc |-> "config", res |-> 0, owner |-> "attemptReconnection"]]
  /\ recon' = [recon EXCEPT ![r].pc = "initwait", ![r].p = FreePerfId,
                            ![r].inits = recon[r].inits + 1]
  /\ initializationPromise' = PromiseAfterUpdate
  /\ UNCHANGED <<dsInit, cfgUrl, healthCheckInterval, isHealthy,
                 lastHealthCheckError, reconnectionInProgress, client, probe,
                 closer, left>>
  /\ UNCHANGED notDb

\* part_002:452-455 and 473-475: the initialization succeeded
Rc_InitOk(r) ==
  /\ recon[r].pc = "initOk"
  /\ isHealthy' = TRUE
  /\ lastHealthCheckError' = NoError
  /\ reconnectionInProgress' = FALSE
  /\ recon' = [recon EXCEPT ![r].pc = "idle", ![r].err = NoError]
  /\ UNCHANGED <<appDataSource, dsUrl, dsInit, dsCount, cfgUrl,
                 initializationPromise, healthCheckInterval, perf, client, probe,
                 closer, left>>
  /\ UNCHANGED notDb

\* part_002:443, with one turn more
ForLoop_OneMore(attempt) == attempt <= MaxConnectionRetries + 1

\* part_002:443: the for loop's test, attempt <= maxConnectionRetries
ForLoop(attempt) == attempt <= MaxConnectionRetries

\* part_002:460: if (attempt < CONNECTION_CONFIG.maxConnectionRetries)
RetryReconnect(attempt) == attempt < MaxConnectionRetries

\* part_002:443 and 468-475: attempt++ and the loop's test; the next attempt
\* starts with updateDataSourceConfig(), or the loop ends:
\* lastHealthCheckError = lastError and, in the finally, the flag is reset
Rc_NextAttemptAfter(r, lastError) ==
  IF ForLoop(recon[r].attempt + 1)
  THEN /\ recon' = [recon EXCEPT ![r].pc = "config",
                                 ![r].attempt = recon[r].attempt + 1]
       /\ UNCHANGED <<lastHealthCheckError, reconnectionInProgress>>
  ELSE /\ lastHealthCheckError' = lastError
       /\ reconnectionInProgress' = FALSE
       /\ recon' = [recon EXCEPT ![r].pc = "idle", ![r].err = NoError]

\* part_002:456-465: the initialization failed; lastError is set and, unless
\* this was the last attempt, the loop waits before the next turn
Rc_InitFailed(r) ==
  /\ recon[r].pc = "initErr"
  /\ IF RetryReconnect(recon[r].attempt)
     THEN /\ recon' = [recon EXCEPT ![r].pc = "sleep", ![r].err = ToError(recon[r].err)]
          /\ UNCHANGED <<lastHealthCheckError, reconnectionInProgress>>
     ELSE Rc_NextAttemptAfter(r, ToError(recon[r].err))
  /\ UNCHANGED <<appDataSource, dsUrl, dsInit, dsCount, cfgUrl,
                 initializationPromise, healthCheckInterval, isHealthy, perf,
                 client, probe, closer, left>>
  /\ UNCHANGED notDb

\* part_002:463: the wait ends
Rc_Wake(r) ==
  /\ recon[r].pc = "sleep"
  /\ Rc_NextAttemptAfter(r, recon[r].err)
  /\ UNCHANGED <<appDataSource, dsUrl, dsInit, dsCount, cfgUrl,
                 initializationPromise, healthCheckInterval, isHealthy, perf,
                 client, probe, closer, left>>
  /\ UNCHANGED notDb

(***************************************************************************)
(* checkDatabaseHealth  (part_002:360-388), run by the timer (400-402)     *)
(***************************************************************************)

\* part_002:379: if (isRetryableDbError(error) && !reconnectionInProgress)
ShouldReconnect(error) == isRetryableDbError(error) /\ ~reconnectionInProgress

\* no run of checkDatabaseHealth is in flight in slot h
ProbeOver(h) == probe[h].pc \in {"idle", "passed", "failed"}

\* part_002:400-402 and 361-369: the timer fires (the run takes the first
\* slot that is over).  Without an initialized
\* DataSource the probe fails at once; else SELECT 1 is sent.  The run counts
\* the firings while the store may still fail; once it is reachable for good
\* the timer fires on and on.
Probe_Tick(h) ==
  /\ healthCheckInterval
  /\ ProbeOver(h)
  /\ \A g \in Probes : ProbeOver(g) => h <= g
  /\ IF ~isDatabaseConnected
     THEN /\ isHealthy' = FALSE
          /\ lastHealthCheckError' = ErrNotInitialized
          /\ probe' = [probe EXCEPT ![h] = [pc |-> "failed", ds |-> 0,
                                            err |-> ErrNotInitialized]]
     ELSE /\ probe' = [probe EXCEPT ![h] = [pc |-> "query", ds |-> appDataSource,
                                            err |-> NoError]]
          /\ UNCHANGED <<isHealthy, lastHealthCheckError>>
  /\ UNCHANGED <<appDataSource, dsUrl, dsInit, dsCount, cfgUrl,
                 initializationPromise, healthCheckInterval,
                 reconnectionInProgress, perf, client, recon, closer>>
  /\ IF store.up
     THEN /\ store' = [store EXCEPT !.beat = 1 - store.beat]
          /\ UNCHANGED left
     ELSE /\ left.ticks > 0
          /\ left' = [left EXCEPT !.ticks = left.ticks - 1]
          /\ UNCHANGED store
  /\ UNCHANGED notDbStore

\* part_002:369-372: SELECT 1 succeeds (the DataSource it was sent on is
\* still connected)
Probe_QueryOk(h) ==
  /\ probe[h].pc = "query"
  /\ dsInit[probe[h].ds]
  /\ isHealthy' = TRUE
  /\ lastHealthCheckError' = NoError
  /\ probe' = [probe EXCEPT ![h] = [pc |-> "passed", ds |-> 0, err |-> NoError]]
  /\ UNCHANGED <<appDataSource, dsUrl, dsInit, dsCount, cfgUrl,
                 initializationPromise, healthCheckInterval,
                 reconnectionInProgress, perf, client, recon, closer, left>>
  /\ UNCHANGED notDb

\* part_002:373-386: SELECT 1 fails with error e (the store is not reachable
\* for good, or the DataSource was destroyed); health is marked and, for a
\* retryable error with no reconnection in progress, attemptReconnection()
\* is called
Probe_QueryFailed(h) ==
  /\ probe[h].pc = "query"
  /\ ~store.up \/ ~dsInit[probe[h].ds]
  /\ \E e \in DbErrors :
       /\ isHealthy' = FALSE
       /\ lastHealthCheckError' = ToError(e)
       /\ probe' = [probe EXCEPT ![h] = [pc |-> "failed", ds |-> 0, err |-> e]]
       /\ IF ShouldReconnect(e)
          THEN attemptReconnection
          ELSE UNCHANGED <<reconnectionInProgress, recon, initializationPromise>>
  /\ UNCHANGED <<appDataSource, dsUrl, dsInit, dsCount, cfgUrl,
                 healthCheckInterval, perf, client, closer, left>>
  /\ UNCHANGED notDb

(***************************************************************************)
(* closeDatabase  (part_002:479-488)                                       *)
(***************************************************************************)

\* part_002:409-415
stopHealthCheck == healthCheckInterval' = FALSE

\* part_002:479-487: closeDatabase() is called: the timer is stopped and an
\* initialized DataSource destroyed; with none, isHealthy = false at once.
\* duringReconnect records that the call came while a reconnection ran and
\* no client call was in flight.
Close_Call ==
  /\ closer.pc \in {"idle", "done", "failed"}
  /\ stopHealthCheck
  /\ LET mark == reconnectionInProgress /\ \A c \in Clients : Returned(c)
     IN  IF isDatabaseConnected
         THEN /\ closer' = [pc |-> "destroy", ds |-> appDataSource,
                            duringReconnect |-> mark]
              /\ UNCHANGED isHealthy
         ELSE /\ closer' = [pc |-> "done", ds |-> 0, duringReconnect |-> mark]
              /\ isHealthy' = FALSE
  /\ UNCHANGED <<appDataSource, dsUrl, dsInit, dsCount, cfgUrl,
                 initializationPromise, lastHealthCheckError,
                 reconnectionInProgress, perf, client, recon, probe>>
  /\ left.closes > 0
  /\ left' = [left EXCEPT !.closes = left.closes - 1]
  /\ UNCHANGED notDb

\* part_002:484-487: destroy() resolves; isHealthy = false
Close_Destroyed ==
  /\ closer.pc = "destroy"
  /\ dsInit' = [dsInit EXCEPT ![closer.ds] = FALSE]
  /\ isHealthy' = FALSE
  /\ closer' = [closer EXCEPT !.pc = "done", !.ds = 0]
  /\ UNCHANGED <<appDataSource, dsUrl, dsCount, cfgUrl,
                 initializationPromise, healthCheckInterval,
                 lastHealthCheckError, reconnectionInProgress, perf, client,
                 recon, probe, left>>
  /\ UNCHANGED notDb

\* part_002:484: destroy() rejects and closeDatabase() with it
Close_DestroyFailed ==
  /\ closer.pc = "destroy"
  /\ closer' = [closer EXCEPT !.pc = "failed", !.ds = 0]
  /\ UNCHANGED <<appDataSource, dsUrl, dsInit, dsCount, cfgUrl,
                 initializationPromise, healthCheckInterval, isHealthy,
                 lastHealthCheckError, reconnectionInProgress, perf, client,
                 recon, probe, left>>
  /\ UNCHANGED notDb

\* the store becomes reachable and stays reachable
StoreRecovers ==
  /\ ~store.up
  /\ store' = [store EXCEPT !.up = TRUE]
  /\ UNCHANGED <<dbVars, notDbStore>>

\* initializeDatabase() and what it runs, under a URL that changes
NextInit ==
  \/ ConfigChange
  \/ \E t \in PerfIds : Perf_Config(t)
  \/ \E t \in PerfIds : Perf_Connected(t)
  \/ \E t \in PerfIds : Perf_ConnectFailed(t)
  \/ \E t \in PerfIds : Perf_SetupDone(t)
  \/ \E c \in Clients : Init_Call(c)
  \/ \E c \in Clients : Init_Resume(c)

\* the whole connection manager
NextDb ==
  \/ \E t \in PerfIds : Perf_Config(t)
  \/ \E t \in PerfIds : Perf_Connected(t)
  \/ \E t \in PerfIds : Perf_ConnectFailed(t)
  \/ \E t \in PerfIds : Perf_SetupDone(t)
  \/ \E c \in Clients : Init_Call(c)
  \/ \E c \in Clients : Init_Resume(c)
  \/ \E c \in Clients : Rd_Call(c)
  \/ \E c \in Clients : Rd_Destroyed(c)
  \/ \E c \in Clients : Rd_DestroyFailed(c)
  \/ \E c \in Clients : Rd_Config(c)
  \/ \E r \in Recons : Rc_DestroySettled(r)
  \/ \E r \in Recons : Rc_Config(r)
  \/ \E r \in Recons : Rc_InitOk(r)
  \/ \E r \in Recons : Rc_InitFailed(r)
  \/ \E r \in Recons : Rc_Wake(r)
  \/ \E h \in Probes : Probe_Tick(h)
  \/ \E h \in Probes : Probe_QueryOk(h)
  \/ \E h \in Probes : Probe_QueryFailed(h)
  \/ Close_Call
  \/ Close_Destroyed
  \/ Close_DestroyFailed

\* the connection manager left to itself: callers of initializeDatabase(),
\* the health-check timer and the reconnect loop, against a store that
\* fails and then recovers
NextHeal ==
  \/ \E t \in PerfIds : Perf_Config(t)
  \/ \E t \in PerfIds : Perf_Connected(t)
  \/ \E t \in PerfIds : Perf_ConnectFailed(t)
  \/ \E t \in PerfIds : Perf_SetupDone(t)
  \/ \E c \in Clients : Init_Call(c)
  \/ \E c \in Clients : Init_Resume(c)
  \/ \E r \in Recons : Rc_DestroySettled(r)
  \/ \E r \in Recons : Rc_Config(r)
  \/ \E r \in Recons : Rc_InitOk(r)
  \/ \E r \in Recons : Rc_InitFailed(r)
  \/ \E r \in Recons : Rc_Wake(r)
  \/ \E h \in Probes : Probe_Tick(h)
  \/ \E h \in Probes : Probe_QueryOk(h)
  \/ \E h \in Probes : Probe_QueryFailed(h)
  \/ StoreRecovers

(***************************************************************************)
(* THE TOOL-EMBEDDING WRITER  (src/services/vectorSearchService.ts)        *)
(***************************************************************************)

\* calls of saveToolsAsVectorEmbeddings that may overlap
NSavers == 2
\* calls of saveToolsAsVectorEmbeddings in a run with overlapping calls
MaxSaves == 2
\* calls of saveToolsAsVectorEmbeddings in a run with one call at a time
SeqSaves == 3
\* the longest tool list of a call
MaxTools == 2
\* calls of removeServerToolEmbeddings in a run
MaxRemoves == 1
\* the limits of a search request: -MaxLimitBelow .. MaxLimitBelow and
\* 100 - MaxLimitAbove .. 100 + MaxLimitAbove
MaxLimitBelow == 3
MaxLimitAbove == 2
\* the dimensions of a call of createVectorIndex lie within DimSpread of
\* the two limits
DimSpread == 2

\* vectorSearchService.ts:19-22
EMBEDDING_DIMENSIONS_SMALL == 1536
EMBEDDING_DIMENSIONS_LARGE == 3072
BGE_DIMENSIONS == 1024
FALLBACK_DIMENSIONS == 100

\* index.ts:11-12
MAX_CONSECUTIVE_FATAL_ERRORS == 5
FATAL_ERROR_WINDOW_MS == 60000

\* vectorSearchService.ts:29-30
VECTOR_MAX_DIMENSIONS == 2000
HALFVEC_MAX_DIMENSIONS == 4000

Savers == 1 .. NSavers
ServerNames == {"a", "b"}
ToolNames == {"x", "y"}

\* the lengths generateEmbedding returns: the fallback's and
\* text-embedding-3-large's
EmbeddingLengths == {FALLBACK_DIMENSIONS, EMBEDDING_DIMENSIONS_LARGE}

\* the tool lists of a call: no tool twice, at most MaxTools tools
ToolLists ==
  { q \in UNION { [1 .. n -> ToolNames] : n \in 0 .. MaxTools } :
      \A i, j \in DOMAIN q : i # j => q[i] # q[j] }

\* vectorSearchService.ts:412: `${serverName}:${tool.name}`
EntityKey(serverName, toolName) == serverName \o ":" \o toolName

EntityKeys == { EntityKey(b, t) : b \in ServerNames, t \in ToolNames }

\* the decimal digits of n > 0, as the store prints them
RECURSIVE Digits(_)
Digits(n) == IF n < 10 THEN <<n>> ELSE Append(Digits(n \div 10), n % 10)

\* vectorSearchService.ts:720: format_type(atttypid, atttypmod) of the
\* embedding column: "vector" without a width, "vector(<width>)" with one
FormatType(width) ==
  IF width = 0 THEN <<"vector">> ELSE <<"vector", "(", Digits(width), ")">>

\* vectorSearchService.ts:719 and 731: atttypmod of the embedding column; -1
\* is no type modifier (753-755), else the width (757-758)
Atttypmod(width) == IF width = 0 THEN -1 ELSE width

\* vectorSearchService.ts:745: parseInt of a string of digits
RECURSIVE ParseInt(_)
ParseInt(digits) ==
  IF digits = <<>> THEN 0
  ELSE 10 * ParseInt(SubSeq(digits, 1, Len(digits) - 1)) + digits[Len(digits)]

\* the value of vectorTypeInfo when the first query failed (725-727)
NoTypeInfo == <<>>

\* vectorSearchService.ts:737-761: currentDimensions from the two query
\* results; formatted is vectorTypeInfo[0].formatted_type (or NoTypeInfo) and
\* dimensions is result[0].dimensions
ParsedDimensions(formatted, dimensions) ==
  LET fromType ==
        IF formatted # NoTypeInfo /\ Len(formatted) = 4
             /\ formatted[1] = "vector" /\ formatted[2] = "(" /\ formatted[4] = ")"
        THEN ParseInt(formatted[3])
        ELSE 0
  IN  IF dimensions # 0
      THEN IF fromType # 0 THEN fromType
           ELSE IF dimensions = -1 THEN 0 ELSE dimensions
      ELSE 0

\* vectorSearchService.ts:784: a mismatch only when a width is configured
NeedsReconcile_FirstTimeOnly(currentDimensions, dimensionsNeeded) ==
  currentDimensions = 0

\* vectorSearchService.ts:784
NeedsReconcile(currentDimensions, dimensionsNeeded) ==
  currentDimensions = 0 \/ currentDimensions # dimensionsNeeded

\* vectorSearchService.ts:832-833, deleting every record
Mismatched_All(dimensions, expectedDimensions) == TRUE

\* vectorSearchService.ts:832-833: DELETE ... WHERE dimensions != $1
Mismatched(dimensions, expectedDimensions) == dimensions # expectedDimensions

\* vectorSearchService.ts:51-192, the plain index tried below the limit only
createVectorIndex_Below(dimensions, drop, hnsw, ivfflat, halfvec) ==
  LET result(success, indexType, created) ==
        [ success |-> success, indexType |-> indexType,
          statements |-> <<"DROP INDEX">> \o created, raised |-> FALSE ]
  IN  IF dimensions < VECTOR_MAX_DIMENSIONS
      THEN IF hnsw THEN result(TRUE, "hnsw", <<"CREATE INDEX hnsw">>)
           ELSE IF ivfflat
           THEN result(TRUE, "ivfflat",
                       <<"CREATE INDEX hnsw", "CREATE INDEX ivfflat">>)
           ELSE result(FALSE, "null",
                       <<"CREATE INDEX hnsw", "CREATE INDEX ivfflat">>)
      ELSE IF dimensions <= HALFVEC_MAX_DIMENSIONS
      THEN IF halfvec
           THEN result(TRUE, "hnsw-halfvec", <<"CREATE INDEX hnsw halfvec">>)
           ELSE result(FALSE, "null", <<"CREATE INDEX hnsw halfvec">>)
      ELSE result(FALSE, "null", <<>>)

\* vectorSearchService.ts:51-192, a failing DROP INDEX not caught
createVectorIndex_DropRaises(dimensions, drop, hnsw, ivfflat, halfvec) ==
  LET result(success, indexType, created) ==
        [ success |-> success, indexType |-> indexType,
          statements |-> <<"DROP INDEX">> \o created, raised |-> ~drop ]
  IN  IF dimensions <= VECTOR_MAX_DIMENSIONS
      THEN IF hnsw THEN result(TRUE, "hnsw", <<"CREATE INDEX hnsw">>)
           ELSE IF ivfflat
           THEN result(TRUE, "ivfflat",
                       <<"CREATE INDEX hnsw", "CREATE INDEX ivfflat">>)
           ELSE result(FALSE, "null",
                       <<"CREATE INDEX hnsw", "CREATE INDEX ivfflat">>)
      ELSE IF dimensions <= HALFVEC_MAX_DIMENSIONS
      THEN IF halfvec
           THEN result(TRUE, "hnsw-halfvec", <<"CREATE INDEX hnsw halfvec">>)
           ELSE result(FALSE, "null", <<"CREATE INDEX hnsw halfvec">>)
      ELSE result(FALSE, "null", <<>>)

\* vectorSearchService.ts:51-192: createVectorIndex(dataSource, dimensions):
\* the statements it issues, the index it reports and whether it throws;
\* drop, hnsw, ivfflat and halfvec tell which of DROP INDEX IF EXISTS and
\* of the three CREATE INDEX statements the store accepts. Every
\* dataSource.query is inside a try whose catch returns or goes on (60-64,
\* 68-104, 109-161)
createVectorIndex(dimensions, drop, hnsw, ivfflat, halfvec) ==
  LET result(success, indexType, created) ==
        [ success |-> success, indexType |-> indexType,
          statements |-> <<"DROP INDEX">> \o created, raised |-> FALSE ]
  IN  IF dimensions <= VECTOR_MAX_DIMENSIONS
      THEN IF hnsw THEN result(TRUE, "hnsw", <<"CREATE INDEX hnsw">>)
           ELSE IF ivfflat
           THEN result(TRUE, "ivfflat",
                       <<"CREATE INDEX hnsw", "CREATE INDEX ivfflat">>)
           ELSE result(FALSE, "null",
                       <<"CREATE INDEX hnsw", "CREATE INDEX ivfflat">>)
      ELSE IF dimensions <= HALFVEC_MAX_DIMENSIONS
      THEN IF halfvec
           THEN result(TRUE, "hnsw-halfvec", <<"CREATE INDEX hnsw halfvec">>)
           ELSE result(FALSE, "null", <<"CREATE INDEX hnsw halfvec">>)
      ELSE result(FALSE, "null", <<>>)

\* a call of createVectorIndex with dimensions around the two limits and a
\* store accepting or refusing each statement
createVectorIndex_Call ==
  /\ \E dimensions \in
          {1} \cup (VECTOR_MAX_DIMENSIONS - DimSpread) .. (VECTOR_MAX_DIMENSIONS + DimSpread)
              \cup (HALFVEC_MAX_DIMENSIONS - DimSpread) .. (HALFVEC_MAX_DIMENSIONS + DimSpread),
        drop, hnsw, ivfflat, halfvec \in BOOLEAN :
       applied' = [ fn |-> "createVectorIndex", dimensions |-> dimensions,
                    drop |-> drop, hnsw |-> hnsw, ivfflat |-> ivfflat,
                    halfvec |-> halfvec,
                    result |-> createVectorIndex(dimensions, drop, hnsw,
                                                 ivfflat, halfvec) ]
  /\ UNCHANGED <<retryVars, dbVars, vecVars, syncVars, srchVars, procVars, store>>

IdleSaver ==
  [ pc |-> "idle", serverName |-> "", given |-> <<>>, tools |-> <<>>,
    embedding |-> 0, formatted |-> NoTypeInfo, currentDimensions |-> 0,
    cleared |-> FALSE, kept |-> FALSE ]

\* the store holds no record and the embedding column has no width
InitVec ==
  /\ colWidth = 0
  /\ records = [k \in EntityKeys |-> 0]
  /\ index = [indexType |-> "null", dimensions |-> 0]
  /\ saver = [s \in Savers |-> IdleSaver]

\* the dimensions of the stored records
StoredDimensions == { records[k] : k \in EntityKeys } \ {0}

\* vectorSearchService.ts:765-771: the dimensions of the first row of the
\* record check, a largest group (a model has one length, so the groups by
\* dimensions and model are the groups by dimensions)
TopDimensions ==
  { d \in StoredDimensions :
      \A e \in StoredDimensions :
        Cardinality({k \in EntityKeys : records[k] = e})
          <= Cardinality({k \in EntityKeys : records[k] = d}) }

\* no call is in flight in slot s
SaveOver(s) == saver[s].pc \in {"idle", "done", "failed"}

\* vectorSearchService.ts:358-384: saveToolsAsVectorEmbeddings(serverName,
\* tools) is called; an empty list returns at once (363-366), else the loop
\* starts with the first tool (smart routing is enabled, the database is
\* connected)
Save_Start(s, serverName, tools) ==
  /\ SaveOver(s)
  /\ \A r \in Savers : SaveOver(r) => s <= r
  /\ savesLeft > 0
  /\ savesLeft' = savesLeft - 1
  /\ saver' = [saver EXCEPT ![s] =
                 [IdleSaver EXCEPT !.pc = IF tools = <<>> THEN "done" ELSE "embed",
                                   !.serverName = serverName,
                                   !.given = tools, !.tools = tools]]
  /\ UNCHANGED <<colWidth, records, index>>

\* a call is made, whatever calls are in flight
Save_Call(s) ==
  /\ \E serverName \in ServerNames, tools \in ToolLists : Save_Start(s, serverName, tools)
  /\ UNCHANGED notVec

\* a call is made when no call is in flight
Save_CallAlone(s) ==
  /\ \A r \in Savers : SaveOver(r)
  /\ \E serverName \in ServerNames, tools \in ToolLists : Save_Start(s, serverName, tools)
  /\ UNCHANGED notVec

\* vectorSearchService.ts:404: generateEmbedding resolves with an embedding
Save_Embedded(s) ==
  /\ saver[s].pc = "embed"
  /\ \E length \in EmbeddingLengths :
       saver' = [saver EXCEPT ![s].pc = "typeinfo", ![s].embedding = length]
  /\ UNCHANGED <<colWidth, records, index, savesLeft>>
  /\ UNCHANGED notVec

\* vectorSearchService.ts:404 and 426-428: generateEmbedding rejects; the
\* catch around the loop logs the error and the call returns
Save_EmbedFailed(s) ==
  /\ saver[s].pc = "embed"
  /\ saver' = [saver EXCEPT ![s].pc = "failed"]
  /\ UNCHANGED <<colWidth, records, index, savesLeft>>
  /\ UNCHANGED notVec

\* vectorSearchService.ts:716-727: the query of the column's formatted type
\* resolves, or rejects and is caught
Save_TypeInfo(s) ==
  /\ saver[s].pc = "typeinfo"
  /\ \E formatted \in {FormatType(colWidth), NoTypeInfo} :
       saver' = [saver EXCEPT ![s].pc = "typmod", ![s].formatted = formatted]
  /\ UNCHANGED <<colWidth, records, index, savesLeft>>
  /\ UNCHANGED notVec

\* vectorSearchService.ts:730-761: the query of atttypmod resolves and
\* currentDimensions is parsed
Save_Typmod(s) ==
  /\ saver[s].pc = "typmod"
  /\ saver' = [saver EXCEPT
                 ![s].pc = "recordcheck",
                 ![s].currentDimensions =
                    ParsedDimensions(saver[s].formatted, Atttypmod(colWidth)),
                 ![s].formatted = NoTypeInfo]
  /\ UNCHANGED <<colWidth, records, index, savesLeft>>
  /\ UNCHANGED notVec

\* vectorSearchService.ts:784-796: where checkDatabaseVectorDimensions goes
\* with currentDimensions: to the write when the dimensions match, to the
\* ALTER on a first-time setup, else to the DELETE
AfterCheck(currentDimensions, dimensionsNeeded) ==
  IF ~NeedsReconcile(currentDimensions, dimensionsNeeded) THEN "write"
  ELSE IF currentDimensions = 0 THEN "alter"
  ELSE "delete"

\* vectorSearchService.ts:764-796: the record check resolves (with stored
\* records and currentDimensions = 0, the dimensions of the largest group
\* are taken), or rejects and is caught
Save_RecordCheck(s) ==
  /\ saver[s].pc = "recordcheck"
  /\ \E current \in
          {saver[s].currentDimensions}
            \cup (IF saver[s].currentDimensions = 0 THEN TopDimensions ELSE {}) :
       saver' = [saver EXCEPT ![s].pc = AfterCheck(current, saver[s].embedding),
                              ![s].currentDimensions = current]
  /\ UNCHANGED <<colWidth, records, index, savesLeft>>
  /\ UNCHANGED notVec

\* vectorSearchService.ts:795 and 823-843: clearMismatchedVectorData deletes
\* the records whose dimensions differ from the needed ones
Save_Delete(s) ==
  /\ saver[s].pc = "delete"
  /\ records' = [k \in EntityKeys |->
                   IF Mismatched(records[k], saver[s].embedding) THEN 0 ELSE records[k]]
  /\ saver' = [saver EXCEPT
                 ![s].pc = "alter",
                 ![s].cleared = saver[s].cleared
                                  \/ \E k \in EntityKeys : records[k] # 0 /\ records'[k] = 0,
                 ![s].kept = \E k \in EntityKeys : records'[k] # 0]
  /\ UNCHANGED <<colWidth, index, savesLeft>>
  /\ UNCHANGED notVec

\* vectorSearchService.ts:799-802: ALTER COLUMN embedding TYPE vector(needed)
Save_Alter(s) ==
  /\ saver[s].pc = "alter"
  /\ colWidth' = saver[s].embedding
  /\ saver' = [saver EXCEPT ![s].pc = "index", ![s].kept = FALSE]
  /\ UNCHANGED <<records, index, savesLeft>>
  /\ UNCHANGED notVec

\* vectorSearchService.ts:805-810: createVectorIndex drops the index (DROP
\* INDEX IF EXISTS) and builds one for the needed dimensions; its
\* statements touch the index alone and no failure of them ends the check
Save_EnsureIndex(s) ==
  /\ saver[s].pc = "index"
  /\ \E drop, hnsw, ivfflat, halfvec \in BOOLEAN :
       index' = [ indexType |-> createVectorIndex(saver[s].embedding, drop, hnsw,
                                                  ivfflat, halfvec).indexType,
                  dimensions |-> saver[s].embedding ]
  /\ saver' = [saver EXCEPT ![s].pc = "write"]
  /\ UNCHANGED <<colWidth, records, savesLeft>>
  /\ UNCHANGED notVec

\* VectorEmbeddingRepository.saveEmbedding('tool', id, text, embedding, ...):
\* the record keyed by (kind, key) is written or replaced; its dimensions
\* are the embedding's length
saveEmbedding(id, embedding) == [records EXCEPT ![id] = embedding]

\* vectorSearchService.ts:410-425: saveEmbedding resolves; the loop goes on
\* with the next tool or the call returns
Save_Write(s) ==
  /\ saver[s].pc = "write"
  /\ records' = saveEmbedding(EntityKey(saver[s].serverName, Head(saver[s].tools)),
                              saver[s].embedding)
  /\ saver' = [saver EXCEPT
                 ![s].pc = IF Tail(saver[s].tools) = <<>> THEN "done" ELSE "embed",
                 ![s].tools = Tail(saver[s].tools),
                 ![s].embedding = 0,
                 ![s].currentDimensions = 0]
  /\ UNCHANGED <<colWidth, index, savesLeft>>
  /\ UNCHANGED notVec

\* vectorSearchService.ts:812-815 and 426-428: a statement whose failure is
\* not caught on the spot (the atttypmod query, the DELETE, the ALTER, the
\* write) rejects with error; getAppDataSource().query is awaited as it is
\* (730, 799, 830), so the catch of checkDatabaseVectorDimensions rethrows
\* at once, the catch around the loop logs the error and the call returns
Save_StatementFailed(s, error) ==
  /\ saver[s].pc \in {"typmod", "delete", "alter", "write"}
  /\ saver' = [saver EXCEPT ![s].pc = "failed", ![s].kept = FALSE]
  /\ UNCHANGED <<colWidth, records, index, savesLeft>>
  /\ UNCHANGED notVec

\* vectorSearchService.ts:645-657: removeServerToolEmbeddings(serverName),
\* called when no save is under way: the repository is looked up, a line is
\* logged and the call returns; no statement is sent to the store
removeServerToolEmbeddings(serverName) ==
  /\ \A s \in Savers : SaveOver(s)
  /\ removesLeft > 0
  /\ removesLeft' = removesLeft - 1
  /\ UNCHANGED vecVars
  /\ UNCHANGED notSync

\* the steps of a call that is under way
SaveSteps(s) ==
  \/ Save_Embedded(s)
  \/ Save_EmbedFailed(s)
  \/ Save_TypeInfo(s)
  \/ Save_Typmod(s)
  \/ Save_RecordCheck(s)
  \/ Save_Delete(s)
  \/ Save_Alter(s)
  \/ Save_EnsureIndex(s)
  \/ Save_Write(s)
  \/ \E error \in DbErrors : Save_StatementFailed(s, error)

\* calls that overlap
NextVec ==
  \/ \E s \in Savers : Save_Call(s)
  \/ \E s \in Savers : SaveSteps(s)

\* one call at a time
NextVecSeq ==
  \/ \E s \in Savers : Save_CallAlone(s)
  \/ \E s \in Savers : SaveSteps(s)
  \/ \E serverName \in ServerNames : removeServerToolEmbeddings(serverName)


(***************************************************************************)
(* THE DISCOVERY ENGINE  (part_001, src/services/vectorSearchService.ts)   *)
(***************************************************************************)

\* part_001:54-63: cleanInputSchema(schema); a schema is the set of its keys
cleanInputSchema(schema) == schema \ {"$schema"}

\* vectorSearchService.ts:438-535, rethrowing what the query threw
searchToolsByVector_Rethrow(outcome, serverNames) ==
  [ thrown  |-> outcome,
    results |-> IF outcome # NoError THEN {}
                ELSE IF serverNames.given /\ serverNames.names # {}
                THEN {h \in hits : h.serverName \in serverNames.names}
                ELSE hits ]

\* vectorSearchService.ts:438-535: searchToolsByVector(query, limit,
\* threshold, serverNames), where outcome is what searchByText throws
\* (NoError: it resolves with hits); a thrown value is caught and logged and
\* the result is empty (531-534), a list of server names that is given and
\* not empty filters the hits (467-481)
searchToolsByVector(outcome, serverNames) ==
  [ thrown  |-> NoError,
    results |-> IF outcome # NoError THEN {}
                ELSE IF serverNames.given /\ serverNames.names # {}
                THEN {h \in hits : h.serverName \in serverNames.names}
                ELSE hits ]

\* part_001:309-318: the tool of the live catalog a search result names:
\* its server is listed, connected and not disabled, and lists the tool
ActualTool(result) ==
  /\ result.serverName \in DOMAIN serverInfos
  /\ serverInfos[result.serverName].status = "connected"
  /\ serverInfos[result.serverName].enabled
  /\ result.toolName \in DOMAIN serverInfos[result.serverName].tools

\* part_001:306-362, the fallback handing out the schema of the index in
\* both modes
ResolvedTool_FallbackSchema(result) ==
  IF /\ ActualTool(result)
     /\ <<result.serverName, result.toolName>> \in filterToolsByConfigFn
  THEN [ name |-> result.toolName, serverName |-> result.serverName,
         hasInputSchema |-> ~progressiveDisclosure,
         inputSchema |-> IF progressiveDisclosure THEN {}
                         ELSE serverInfos[result.serverName].tools[result.toolName] ]
  ELSE [ name |-> result.toolName, serverName |-> result.serverName,
         hasInputSchema |-> TRUE,
         inputSchema |-> cleanInputSchema(result.inputSchema) ]

\* part_001:306-362: the tool a search result is resolved to: the live tool
\* when there is one and the configuration filter passes it (320-341, the
\* whole tool in standard mode, name and description in progressive mode),
\* else the search result itself (346-360, its schema cleaned in standard
\* mode)
ResolvedTool(result) ==
  IF /\ ActualTool(result)
     /\ <<result.serverName, result.toolName>> \in filterToolsByConfigFn
  THEN [ name |-> result.toolName, serverName |-> result.serverName,
         hasInputSchema |-> ~progressiveDisclosure,
         inputSchema |-> IF progressiveDisclosure THEN {}
                         ELSE serverInfos[result.serverName].tools[result.toolName] ]
  ELSE [ name |-> result.toolName, serverName |-> result.serverName,
         hasInputSchema |-> ~progressiveDisclosure,
         inputSchema |-> IF progressiveDisclosure THEN {}
                         ELSE cleanInputSchema(result.inputSchema) ]

\* part_001:365-381, without the group filter
FilterResult_ConfigOnly(tool) ==
  <<tool.serverName, tool.name>> \in filterToolsByConfigFn

\* part_001:365-381: a resolved tool stays when the configuration filter and
\* then the group filter pass it (names and server names are not empty)
FilterResult(tool) ==
  /\ <<tool.serverName, tool.name>> \in filterToolsByConfigFn
  /\ <<tool.serverName, tool.name>> \in filterToolsByGroupFn

\* part_001:262-273, the short rule winning over the precise rule
Threshold_ShortWins(query) ==
  LET words == Cardinality({i \in DOMAIN query : query[i] = " "}) + 1
      includes(pat) ==
        \E i \in 1 .. Len(query) - Len(pat) + 1 :
          SubSeq(query, i, i + Len(pat) - 1) = pat
  IN  IF Len(query) < 10 \/ words <= 2 THEN 2
      ELSE IF \/ Len(query) > 30
              \/ includes(<<"s", "p", "e", "c", "i", "f", "i", "c">>)
              \/ includes(<<"e", "x", "a", "c", "t">>)
      THEN 4
      ELSE 3

\* part_001:262-273: the similarity threshold of a query, in tenths; the
\* query is the sequence of its characters, words is query.split(' ').length
Threshold(query) ==
  LET words == Cardinality({i \in DOMAIN query : query[i] = " "}) + 1
      includes(pat) ==
        \E i \in 1 .. Len(query) - Len(pat) + 1 :
          SubSeq(query, i, i + Len(pat) - 1) = pat
  IN  IF \/ Len(query) > 30
         \/ includes(<<"s", "p", "e", "c", "i", "f", "i", "c">>)
         \/ includes(<<"e", "x", "a", "c", "t">>)
      THEN 4
      ELSE IF Len(query) < 10 \/ words <= 2 THEN 2
      ELSE 3

\* part_001:260: Math.min(Math.max(parseInt(String(limit)) || 10, 1), 100);
\* a limit is a number (an integer, printed with its sign and digits and
\* parsed again), undefined or NaN; 0 and NaN are falsy
LimitNum(limit) ==
  LET parsed == IF limit.kind # "number" THEN 0
                ELSE IF limit.value < 0 THEN 0 - ParseInt(Digits(0 - limit.value))
                ELSE ParseInt(Digits(limit.value))
  IN  Min(Max(IF parsed = 0 THEN 10 ELSE parsed, 1), 100)

\* the caller of the two handlers, handing on what they throw
handleCallToolRequest_Rethrow(result) == result

\* mcpService handleCallToolRequest (part_010:220-239): what a handler
\* throws is caught and answered with a result whose isError is true
handleCallToolRequest(result) ==
  [result EXCEPT !.isError = result.isError \/ result.state = "thrown"]

\* part_001:251-428: handleSearchToolsRequest(query, limit, sessionId),
\* called through handleCallToolRequest; a query that is not a non-empty
\* string is refused before anything else (256-258); outcome is what the
\* similarity query throws
handleSearchToolsRequest(query, limit, outcome) ==
  LET servers == IF group = "$smart/g" /\ serversInGroup.found
                 THEN [given |-> TRUE, names |-> serversInGroup.names]
                 ELSE [given |-> FALSE, names |-> {}]
      searchResults == searchToolsByVector(outcome, servers)
      resolvedTools == { ResolvedTool(r) : r \in searchResults.results }
      tools == { t \in resolvedTools : FilterResult(t) }
      none == [ state |-> "thrown", tools |-> {}, totalResults |-> 0,
                queryError |-> NoError, thrown |-> NoError, query |-> query,
                limit |-> limit, threshold |-> 0, limitNum |-> 0,
                searched |-> FALSE, isError |-> FALSE ]
  IN  /\ response' = handleCallToolRequest(
           IF query.type # "string" \/ query.text = <<>>
           THEN [ none EXCEPT
                    !.thrown = Throwable("Error", "", "", FALSE, "",
                                 <<"Query", "parameter", "is", "required">>, <<>>) ]
           ELSE IF searchResults.thrown # NoError
           THEN [ none EXCEPT
                    !.queryError = outcome, !.thrown = searchResults.thrown,
                    !.threshold = Threshold(query.text),
                    !.limitNum = LimitNum(limit), !.searched = TRUE ]
           ELSE [ none EXCEPT
                    !.state = "returned", !.tools = tools,
                    !.totalResults = Cardinality(tools),
                    !.queryError = outcome,
                    !.threshold = Threshold(query.text),
                    !.limitNum = LimitNum(limit), !.searched = TRUE ])
      /\ UNCHANGED <<serverInfos, filterToolsByConfigFn, filterToolsByGroupFn,
                     group, serversInGroup, progressiveDisclosure, hits,
                     described>>
      /\ UNCHANGED notSrch

\* part_001:433-518, returning the last match of the catalog
handleDescribeToolRequest_Last(toolName) ==
  LET matches == { b \in DOMAIN serverInfos :
                     /\ ActualTool([serverName |-> b, toolName |-> toolName.text])
                     /\ <<b, toolName.text>> \in filterToolsByConfigFn
                     /\ <<b, toolName.text>> \in filterToolsByGroupFn }
      none == [ state |-> "thrown", toolName |-> toolName, serverName |-> "",
                inputSchema |-> {}, isError |-> FALSE, scanned |-> FALSE ]
  IN  /\ described' = handleCallToolRequest(
           IF toolName.type # "string" \/ toolName.text = ""
           THEN none
           ELSE IF matches = {}
           THEN [none EXCEPT !.state = "notfound", !.isError = TRUE,
                             !.scanned = TRUE]
           ELSE LET b == IF "b" \in matches THEN "b" ELSE "a"
                IN  [none EXCEPT
                       !.state = "found", !.serverName = b, !.scanned = TRUE,
                       !.inputSchema =
                          cleanInputSchema(serverInfos[b].tools[toolName.text])])
      /\ UNCHANGED <<serverInfos, filterToolsByConfigFn, filterToolsByGroupFn,
                     group, serversInGroup, progressiveDisclosure, hits,
                     response>>
      /\ UNCHANGED notSrch

\* part_001:433-518: handleDescribeToolRequest(toolName, sessionId), called
\* through handleCallToolRequest; a tool name that is not a non-empty string
\* is refused first (437-439); else the first server of the catalog (a is
\* listed before b) that is connected and not disabled, lists the tool and
\* whose tool passes both filters (the resolved group, "$smart" or "g", is
\* not empty) gives the schema, cleaned (480-485); when there is none the
\* not-found payload with isError is returned (503-517)
handleDescribeToolRequest(toolName) ==
  LET matches == { b \in DOMAIN serverInfos :
                     /\ ActualTool([serverName |-> b, toolName |-> toolName.text])
                     /\ <<b, toolName.text>> \in filterToolsByConfigFn
                     /\ <<b, toolName.text>> \in filterToolsByGroupFn }
      none == [ state |-> "thrown", toolName |-> toolName, serverName |-> "",
                inputSchema |-> {}, isError |-> FALSE, scanned |-> FALSE ]
  IN  /\ described' = handleCallToolRequest(
           IF toolName.type # "string" \/ toolName.text = ""
           THEN none
           ELSE IF matches = {}
           THEN [none EXCEPT !.state = "notfound", !.isError = TRUE,
                             !.scanned = TRUE]
           ELSE LET b == IF "a" \in matches THEN "a" ELSE "b"
                IN  [none EXCEPT
                       !.state = "found", !.serverName = b, !.scanned = TRUE,
                       !.inputSchema =
                          cleanInputSchema(serverInfos[b].tools[toolName.text])])
      /\ UNCHANGED <<serverInfos, filterToolsByConfigFn, filterToolsByGroupFn,
                     group, serversInGroup, progressiveDisclosure, hits,
                     response>>
      /\ UNCHANGED notSrch

\* part_001:68-246: getSmartRoutingTools(group): the names of the tools it
\* describes and the servers its search_tools description lists, the
\* connected and not disabled ones, filtered by the group's servers when
\* getServersInGroup gives a list that is not empty (84-89)
getSmartRoutingTools ==
  LET availableServers ==
        { b \in DOMAIN serverInfos :
            serverInfos[b].status = "connected" /\ serverInfos[b].enabled }
  IN  /\ applied' =
           [ fn |-> "getSmartRoutingTools",
             tools |-> IF progressiveDisclosure
                       THEN <<"search_tools", "describe_tool", "call_tool">>
                       ELSE <<"search_tools", "call_tool">>,
             serversList |->
               IF /\ group = "$smart/g"
                  /\ serversInGroup.found /\ serversInGroup.names # {}
               THEN availableServers \cap serversInGroup.names
               ELSE availableServers ]
      /\ UNCHANGED <<retryVars, dbVars, vecVars, syncVars, srchVars, procVars, store>>

\* the catalog, the filters, the session's group, the mode and the index a
\* request meets; no request was made.  Server a is connected, disconnected,
\* disabled or not listed and lists x and y or y alone, server b is
\* connected and lists x and y or y alone; a schema has a "$schema" key or
\* has none; each filter passes every tool or every tool but a's x; the
\* index returns at most two hits
InitSrch ==
  \E schema \in {{"type"}, {"type", "$schema"}},
     aState \in {"connected", "disconnected", "disabled", "unlisted"},
     aTools, bTools \in {{"x", "y"}, {"y"}},
     keys \in SUBSET (ServerNames \X ToolNames) :
    /\ Cardinality(keys) <= 2
    /\ serverInfos =
         [ b \in IF aState = "unlisted" THEN {"b"} ELSE {"a", "b"} |->
             [ status  |-> IF b = "a" /\ aState = "disconnected"
                           THEN "disconnected" ELSE "connected",
               enabled |-> ~(b = "a" /\ aState = "disabled"),
               tools   |-> [t \in IF b = "a" THEN aTools ELSE bTools |-> schema] ] ]
    /\ hits = { [serverName |-> k[1], toolName |-> k[2], inputSchema |-> schema] :
                  k \in keys }
    /\ filterToolsByConfigFn \in
         { ServerNames \X ToolNames, (ServerNames \X ToolNames) \ {<<"a", "x">>} }
    /\ filterToolsByGroupFn \in
         { ServerNames \X ToolNames, (ServerNames \X ToolNames) \ {<<"a", "x">>} }
    /\ group \in {"$smart", "$smart/g"}
    /\ serversInGroup \in
         IF group = "$smart" THEN {[found |-> FALSE, names |-> {}]}
         ELSE {[found |-> FALSE, names |-> {}]}
                \cup {[found |-> TRUE, names |-> n] : n \in {{}, {"b"}, {"a", "b"}}}
    /\ progressiveDisclosure \in BOOLEAN
    /\ response = [ state |-> "none", tools |-> {}, totalResults |-> 0,
       queryError |-> NoError, thrown |-> NoError,
       query |-> [type |-> "undefined", text |-> <<>>],
       limit |-> [kind |-> "undefined", value |-> 0],
       threshold |-> 0, limitNum |-> 0, searched |-> FALSE, isError |-> FALSE ]
    /\ described = [ state |-> "none", toolName |-> [type |-> "undefined", text |-> ""],
       serverName |-> "", inputSchema |-> {}, isError |-> FALSE, scanned |-> FALSE ]

\* requests with a good and with an empty query and tool name
NextSrch ==
  \/ \E text \in {<<"x">>, <<>>}, outcome \in {NoError} \cup DbErrors :
       handleSearchToolsRequest([type |-> "string", text |-> text],
                                [kind |-> "undefined", value |-> 0], outcome)
  \/ \E text \in ToolNames \cup {""} :
       handleDescribeToolRequest([type |-> "string", text |-> text])

\* requests with queries of every shape (short, of two words, with and
\* without "specific" and "exact", of 30 and of more characters; missing,
\* empty, a number), limits from -MaxLimitBelow to 100 + MaxLimitAbove
\* (also missing and NaN) and tool names that are missing, empty or a number
NextArgs ==
  \/ \E query \in
          { [type |-> "string", text |-> t] : t \in {
        <<>>,
        <<"x">>,
        <<"f", "i", "n", "d", " ", "t", "o", "o", "l">>,
        <<"i", "m", "a", "g", "e", " ", "g", "e", "n", "e", "r", "a", "t", "i", "o", "n">>,
        <<"r", "e", "a", "d", " ", "a", " ", "f", "i", "l", "e", " ", "n", "o", "w">>,
        <<"e", "x", "a", "c", "t">>,
        <<"a", " ", "s", "p", "e", "c", "i", "f", "i", "c", " ", "t", "o", "o", "l", " ", "h", "e", "r", "e">>,
        <<"l", "i", "s", "t", " ", "a", "l", "l", " ", "t", "h", "e", " ", "o", "p", "e", "n", " ", "i", "s", "s", "u", "e", "s", " ", "o", "f", " ", "r", "e", "p", "o">>,
        <<"s", "h", "o", "w", " ", "m", "e", " ", "t", "h", "e", " ", "f", "i", "l", "e", "s", " ", "i", "n", " ", "t", "h", "i", "s", " ", "r", "e", "p", "o">>,
        <<"a", " ", "b", "c", " ", "d", "e", "f", "g", "h">>,
        <<"i", "n", "e", "x", "a", "c", "t", "l", "y", " ", "s", "o", " ", "o", "k">> } }
            \cup {[type |-> "undefined", text |-> <<>>],
                  [type |-> "number", text |-> <<>>]},
        limit \in
          { [kind |-> "number", value |-> n] :
              n \in (0 - MaxLimitBelow) .. MaxLimitBelow
                      \cup (100 - MaxLimitAbove) .. (100 + MaxLimitAbove) }
            \cup {[kind |-> "undefined", value |-> 0], [kind |-> "NaN", value |-> 0]} :
       handleSearchToolsRequest(query, limit, NoError)
  \/ \E toolName \in
          { [type |-> "string", text |-> "x"], [type |-> "string", text |-> ""],
            [type |-> "undefined", text |-> ""], [type |-> "number", text |-> ""] } :
       handleDescribeToolRequest(toolName)


(***************************************************************************)
(* THE FALLBACK EMBEDDING  (src/services/vectorSearchService.ts)           *)
(***************************************************************************)

\* vectorSearchService.ts:258-329: the vocabulary, each word the sequence
\* of its characters
vocabulary ==
  << <<"s", "e", "a", "r", "c", "h">>, <<"f", "i", "n", "d">>,
     <<"g", "e", "t">>, <<"f", "e", "t", "c", "h">>,
     <<"r", "e", "t", "r", "i", "e", "v", "e">>,
     <<"q", "u", "e", "r", "y">>, <<"m", "a", "p">>,
     <<"l", "o", "c", "a", "t", "i", "o", "n">>,
     <<"w", "e", "a", "t", "h", "e", "r">>, <<"f", "i", "l", "e">>,
     <<"d", "i", "r", "e", "c", "t", "o", "r", "y">>,
     <<"e", "m", "a", "i", "l">>, <<"m", "e", "s", "s", "a", "g", "e">>,
     <<"s", "e", "n", "d">>, <<"c", "r", "e", "a", "t", "e">>,
     <<"u", "p", "d", "a", "t", "e">>, <<"d", "e", "l", "e", "t", "e">>,
     <<"b", "r", "o", "w", "s", "e", "r">>, <<"w", "e", "b">>,
     <<"p", "a", "g", "e">>, <<"c", "l", "i", "c", "k">>,
     <<"n", "a", "v", "i", "g", "a", "t", "e">>,
     <<"s", "c", "r", "e", "e", "n", "s", "h", "o", "t">>,
     <<"a", "u", "t", "o", "m", "a", "t", "i", "o", "n">>,
     <<"d", "a", "t", "a", "b", "a", "s", "e">>,
     <<"t", "a", "b", "l", "e">>, <<"r", "e", "c", "o", "r", "d">>,
     <<"i", "n", "s", "e", "r", "t">>, <<"s", "e", "l", "e", "c", "t">>,
     <<"s", "c", "h", "e", "m", "a">>, <<"d", "a", "t", "a">>,
     <<"i", "m", "a", "g", "e">>, <<"p", "h", "o", "t", "o">>,
     <<"v", "i", "d", "e", "o">>, <<"m", "e", "d", "i", "a">>,
     <<"u", "p", "l", "o", "a", "d">>,
     <<"d", "o", "w", "n", "l", "o", "a", "d">>,
     <<"c", "o", "n", "v", "e", "r", "t">>, <<"t", "e", "x", "t">>,
     <<"d", "o", "c", "u", "m", "e", "n", "t">>, <<"p", "d", "f">>,
     <<"e", "x", "c", "e", "l">>, <<"w", "o", "r", "d">>,
     <<"f", "o", "r", "m", "a", "t">>, <<"p", "a", "r", "s", "e">>,
     <<"a", "p", "i">>, <<"r", "e", "s", "t">>, <<"h", "t", "t", "p">>,
     <<"r", "e", "q", "u", "e", "s", "t">>,
     <<"r", "e", "s", "p", "o", "n", "s", "e">>, <<"j", "s", "o", "n">>,
     <<"x", "m", "l">>, <<"t", "i", "m", "e">>, <<"d", "a", "t", "e">>,
     <<"c", "a", "l", "e", "n", "d", "a", "r">>,
     <<"s", "c", "h", "e", "d", "u", "l", "e">>,
     <<"r", "e", "m", "i", "n", "d", "e", "r">>,
     <<"c", "l", "o", "c", "k">>, <<"m", "a", "t", "h">>,
     <<"c", "a", "l", "c", "u", "l", "a", "t", "e">>,
     <<"n", "u", "m", "b", "e", "r">>, <<"s", "u", "m">>,
     <<"a", "v", "e", "r", "a", "g", "e">>,
     <<"s", "t", "a", "t", "i", "s", "t", "i", "c", "s">>,
     <<"u", "s", "e", "r">>, <<"a", "c", "c", "o", "u", "n", "t">>,
     <<"l", "o", "g", "i", "n">>, <<"a", "u", "t", "h">>,
     <<"p", "e", "r", "m", "i", "s", "s", "i", "o", "n">>,
     <<"r", "o", "l", "e">> >>

\* vectorSearchService.ts:256-351, the position of a word's 0.1 taken from
\* Math.random() instead of the word's characters alone
generateFallbackEmbedding_Random(text) ==
  LET letters == <<"a", "b", "c", "d", "e", "f", "g", "h", "i", "j", "k", "l", "m",
                   "n", "o", "p", "q", "r", "s", "t", "u", "v", "w", "x", "y", "z">>
      capitals == <<"A", "B", "C", "D", "E", "F", "G", "H", "I", "J", "K", "L", "M",
                    "N", "O", "P", "Q", "R", "S", "T", "U", "V", "W", "X", "Y", "Z">>
      \* String.prototype.toLowerCase and charCodeAt(0) of one character
      lower(c) == IF \E i \in 1 .. 26 : capitals[i] = c
                  THEN letters[CHOOSE i \in 1 .. 26 : capitals[i] = c]
                  ELSE c
      code(c) == IF \E i \in 1 .. 26 : letters[i] = c
                 THEN 96 + (CHOOSE i \in 1 .. 26 : letters[i] = c)
                 ELSE IF c = "_" THEN 95 ELSE 32
      lowered == [i \in 1 .. Len(text) |-> lower(text[i])]
      \* split(/\s+/): a run of spaces separates two words; a text that
      \* starts or ends with one has an empty first or last word
      RECURSIVE split(_, _, _)
      split(i, pieces, word) ==
        IF i > Len(lowered) THEN Append(pieces, word)
        ELSE IF lowered[i] # " " THEN split(i + 1, pieces, Append(word, lowered[i]))
        ELSE IF i > 1 /\ lowered[i - 1] = " " THEN split(i + 1, pieces, word)
        ELSE split(i + 1, Append(pieces, word), <<>>)
      words == split(1, <<>>, <<>>)
      RECURSIVE hash(_)
      hash(word) == IF word = <<>> THEN 0 ELSE code(Head(word)) + hash(Tail(word))
      \* the vector after words[1..n], in tenths; rnd is added to the
      \* position the hash gives
      RECURSIVE fill(_, _)
      fill(n, rnd) ==
        IF n = 0 THEN [i \in 0 .. FALLBACK_DIMENSIONS - 1 |-> 0]
        ELSE LET word == words[n]
                 v == fill(n - 1, rnd)
                 u == IF \E i \in 1 .. Len(vocabulary) : vocabulary[i] = word
                      THEN LET indexOf == (CHOOSE i \in 1 .. Len(vocabulary) :
                                             vocabulary[i] = word) - 1
                           IN  [v EXCEPT ![indexOf] = @ + 10]
                      ELSE v
                 h == (hash(word) + rnd) % FALLBACK_DIMENSIONS
             IN  [u EXCEPT ![h] = @ + 1]
      RECURSIVE sumOfSquares(_, _)
      sumOfSquares(v, n) ==
        IF n = 0 THEN 0 ELSE v[n - 1] * v[n - 1] + sumOfSquares(v, n - 1)
      normalized(vector) ==
        LET squared == sumOfSquares(vector, FALLBACK_DIMENSIONS)
        IN  [ vector |-> vector, raw |-> vector,
              magnitudeSquared |-> IF squared > 0 THEN squared ELSE 1 ]
  IN  { normalized(fill(Len(words), rnd)) : rnd \in {0, 1} }

\* vectorSearchService.ts:256-351: generateFallbackEmbedding(text), the set
\* of the vectors a call can return (the code reads nothing but text, so
\* there is one).  A vector is given by its values before normalization, in
\* tenths, and the square of the magnitude they are divided by (1 when the
\* magnitude is 0 and the vector is returned as it is): component i is
\* vector[i] / sqrt(magnitudeSquared).  text is the sequence of its
\* characters
generateFallbackEmbedding(text) ==
  LET letters == <<"a", "b", "c", "d", "e", "f", "g", "h", "i", "j", "k", "l", "m",
                   "n", "o", "p", "q", "r", "s", "t", "u", "v", "w", "x", "y", "z">>
      capitals == <<"A", "B", "C", "D", "E", "F", "G", "H", "I", "J", "K", "L", "M",
                    "N", "O", "P", "Q", "R", "S", "T", "U", "V", "W", "X", "Y", "Z">>
      \* String.prototype.toLowerCase and charCodeAt(0) of one character
      lower(c) == IF \E i \in 1 .. 26 : capitals[i] = c
                  THEN letters[CHOOSE i \in 1 .. 26 : capitals[i] = c]
                  ELSE c
      code(c) == IF \E i \in 1 .. 26 : letters[i] = c
                 THEN 96 + (CHOOSE i \in 1 .. 26 : letters[i] = c)
                 ELSE IF c = "_" THEN 95 ELSE 32
      lowered == [i \in 1 .. Len(text) |-> lower(text[i])]
      \* split(/\s+/): a run of spaces separates two words; a text that
      \* starts or ends with one has an empty first or last word
      RECURSIVE split(_, _, _)
      split(i, pieces, word) ==
        IF i > Len(lowered) THEN Append(pieces, word)
        ELSE IF lowered[i] # " " THEN split(i + 1, pieces, Append(word, lowered[i]))
        ELSE IF i > 1 /\ lowered[i - 1] = " " THEN split(i + 1, pieces, word)
        ELSE split(i + 1, Append(pieces, word), <<>>)
      words == split(1, <<>>, <<>>)
      RECURSIVE hash(_)
      hash(word) == IF word = <<>> THEN 0 ELSE code(Head(word)) + hash(Tail(word))
      \* the vector after words[1..n], in tenths; rnd is added to the
      \* position the hash gives
      RECURSIVE fill(_, _)
      fill(n, rnd) ==
        IF n = 0 THEN [i \in 0 .. FALLBACK_DIMENSIONS - 1 |-> 0]
        ELSE LET word == words[n]
                 v == fill(n - 1, rnd)
                 u == IF \E i \in 1 .. Len(vocabulary) : vocabulary[i] = word
                      THEN LET indexOf == (CHOOSE i \in 1 .. Len(vocabulary) :
                                             vocabulary[i] = word) - 1
                           IN  [v EXCEPT ![indexOf] = @ + 10]
                      ELSE v
                 h == (hash(word) + rnd) % FALLBACK_DIMENSIONS
             IN  [u EXCEPT ![h] = @ + 1]
      RECURSIVE sumOfSquares(_, _)
      sumOfSquares(v, n) ==
        IF n = 0 THEN 0 ELSE v[n - 1] * v[n - 1] + sumOfSquares(v, n - 1)
      normalized(vector) ==
        LET squared == sumOfSquares(vector, FALLBACK_DIMENSIONS)
        IN  [ vector |-> vector, raw |-> vector,
              magnitudeSquared |-> IF squared > 0 THEN squared ELSE 1 ]
  IN  { normalized(fill(Len(words), rnd)) : rnd \in {0} }

\* two calls of generateFallbackEmbedding with one text: empty, of one and
\* of several words, with capitals, with spaces at both ends and in runs,
\* with words in and out of the vocabulary
generateFallbackEmbedding_Call ==
  /\ \E text \in {
    <<>>,
    <<"s", "e", "a", "r", "c", "h">>,
    <<"S", "e", "a", "r", "c", "h", " ", "f", "i", "l", "e">>,
    <<" ", " ", "f", "i", "n", "d", " ", " ">>,
    <<"z", "z">>,
    <<"g", "e", "t", "_", "u", "s", "e", "r", " ", "d", "a", "t", "a">>,
    <<"S", "E", "A", "R", "C", "H", " ", "s", "e", "a", "r", "c", "h">>,
    <<"w", "e", "a", "t", "h", "e", "r", " ", "m", "a", "p", " ", "p", "h", "o", "t", "o">>,
    <<"a", " ", "b", " ", "c">> } :
       \E first, second \in generateFallbackEmbedding(text) :
         applied' = [ fn |-> "generateFallbackEmbedding", text |-> text,
                      first |-> first, second |-> second ]
  /\ UNCHANGED <<retryVars, dbVars, vecVars, syncVars, srchVars, procVars, store>>

(***************************************************************************)
(* THE SCOPED SIMILARITY SEARCH  (src/services/vectorSearchService.ts)     *)
(*                                                                         *)
(* The index is the sequence of the tool records that clear the threshold, *)
(* most similar first.                                                     *)
(***************************************************************************)

\* records in the index of a search
MaxIndexed == 3
\* largest limit of a search
MaxSearchLimit == 2

\* the indexes of the model: up to MaxIndexed records of different tools
RankedIndexes ==
  { ranked \in UNION { [1 .. n -> ServerNames \X ToolNames] : n \in 0 .. MaxIndexed } :
      \A i, j \in DOMAIN ranked : i # j => ranked[i] # ranked[j] }

\* vectorSearchService.ts:459-465: vectorRepository.searchByText(query,
\* generateEmbedding, limit, threshold, ['tool']): the records of the kind
\* that clear the threshold, by similarity descending, truncated to limit
searchByText(ranked, limit) == SubSeq(ranked, 1, Min(limit, Len(ranked)))

\* vectorSearchService.ts:467-481: a list of server names that is given and
\* not empty keeps the results whose metadata names one of the servers
filteredResults(results, serverNames) ==
  LET includes(result) == result[1] \in serverNames.names
  IN  IF serverNames.given /\ serverNames.names # {}
      THEN SelectSeq(results, includes)
      ELSE results

\* vectorSearchService.ts:438-535: a call of searchToolsByVector(query,
\* limit, threshold, serverNames) against an index; the query, with the
\* limit, comes first and the filter second
searchToolsByVector_Call ==
  /\ \E ranked \in RankedIndexes, limit \in 1 .. MaxSearchLimit,
        serverNames \in {[given |-> FALSE, names |-> {}]}
                          \cup {[given |-> TRUE, names |-> n] : n \in SUBSET ServerNames} :
       applied' = [ fn |-> "searchToolsByVector", ranked |-> ranked, limit |-> limit,
                    serverNames |-> serverNames,
                    results |-> filteredResults(searchByText(ranked, limit), serverNames) ]
  /\ UNCHANGED <<retryVars, dbVars, vecVars, syncVars, srchVars, procVars, store>>

(***************************************************************************)
(* THE BEARER-KEY REPOSITORY  (src/db/repositories/BearerKeyRepository.ts) *)
(*                                                                         *)
(* The store fails the first `failures` queries it gets with `error` and   *)
(* answers every later one.                                                *)
(***************************************************************************)

\* enough failures to outlast every attempt of a call
MaxStoreFailures == (MaxRetriesBound + 1) * (MaxRetriesBound + 1)

\* dbRetry.ts:196-230, run from `attempt` on by withRetry (30-35) for one
\* of two operations: "findOne", the query this.repository.findOne (55),
\* and "update", the callback of update (82-89), which calls findById and
\* with it withDbRetry again (83).  The result tells whether the call
\* resolved and how many findOne queries were sent.
RECURSIVE withDbRetry_Run(_, _, _, _, _)
withDbRetry_Run(operation, attempt, maxRetries, failures, error) ==
  LET op == IF operation = "findOne"
            THEN [ok |-> failures = 0, lookups |-> 1]
            ELSE withDbRetry_Run("findOne", 1, maxRetries, failures, error)
  IN  IF op.ok \/ RethrowNow(attempt, maxRetries, error)
      THEN op
      ELSE LET next == withDbRetry_Run(operation, attempt + 1, maxRetries,
                                       failures - op.lookups, error)
           IN  [ok |-> next.ok, lookups |-> op.lookups + next.lookups]

\* BearerKeyRepository.ts:54-56
findById(maxRetries, failures, error) ==
  withDbRetry_Run("findOne", 1, maxRetries, failures, error)

\* BearerKeyRepository.ts:78-90
update(maxRetries, failures, error) ==
  withDbRetry_Run("update", 1, maxRetries, failures, error)

\* a call of findById(id) or update(id, updates) of a repository made with
\* retryOptions.maxRetries = maxRetries (22-25)
BearerKeyRepository_Call ==
  /\ \E maxRetries \in 0 .. MaxRetriesBound, failures \in 0 .. MaxStoreFailures,
        error \in {ErrReset, ErrSyntax} :
       \/ applied' = [ fn |-> "BearerKeyRepository.findById",
                       maxRetries |-> maxRetries, failures |-> failures,
                       error |-> error,
                       result |-> findById(maxRetries, failures, error) ]
       \/ applied' = [ fn |-> "BearerKeyRepository.update",
                       maxRetries |-> maxRetries, failures |-> failures,
                       error |-> error,
                       result |-> update(maxRetries, failures, error) ]
  /\ UNCHANGED <<retryVars, dbVars, vecVars, syncVars, srchVars, procVars, store>>

(***************************************************************************)
(* THE PROCESS-LEVEL ERROR HANDLERS  (src/index.ts)                        *)
(***************************************************************************)

\* the clock of a run goes up to MaxWindows windows
MaxWindows == 3

\* index.ts:18-48, without the return for a retryable error
handleUncaughtException_NoRecovery(error) ==
  /\ ~exited
  /\ handled' = [ handler |-> "uncaughtException", error |-> error,
                  transient |-> isRetryableDbError(error),
                  consecutiveFatalErrors |-> consecutiveFatalErrors,
                  lastFatalErrorTime |-> lastFatalErrorTime ]
  /\ IF FALSE
     THEN UNCHANGED <<consecutiveFatalErrors, lastFatalErrorTime, exited,
                      fatalTimes>>
     ELSE LET now == clock
              count == IF now - lastFatalErrorTime < FATAL_ERROR_WINDOW_MS
                       THEN consecutiveFatalErrors + 1
                       ELSE 1
          IN  /\ consecutiveFatalErrors' = count
              /\ lastFatalErrorTime' = now
              /\ exited' = (count >= MAX_CONSECUTIVE_FATAL_ERRORS)
              /\ fatalTimes' = Append(fatalTimes, now)
  /\ UNCHANGED clock
  /\ UNCHANGED notProc

\* index.ts:18-48: handleUncaughtException(error); a retryable database
\* error returns at once (22-26), any other error is counted, within the
\* window after the last one or anew (29-35), and process.exit(1) is called
\* when the count reaches MAX_CONSECUTIVE_FATAL_ERRORS (38-43)
handleUncaughtException(error) ==
  /\ ~exited
  /\ handled' = [ handler |-> "uncaughtException", error |-> error,
                  transient |-> isRetryableDbError(error),
                  consecutiveFatalErrors |-> consecutiveFatalErrors,
                  lastFatalErrorTime |-> lastFatalErrorTime ]
  /\ IF isRetryableDbError(error)
     THEN UNCHANGED <<consecutiveFatalErrors, lastFatalErrorTime, exited,
                      fatalTimes>>
     ELSE LET now == clock
              count == IF now - lastFatalErrorTime < FATAL_ERROR_WINDOW_MS
                       THEN consecutiveFatalErrors + 1
                       ELSE 1
          IN  /\ consecutiveFatalErrors' = count
              /\ lastFatalErrorTime' = now
              /\ exited' = (count >= MAX_CONSECUTIVE_FATAL_ERRORS)
              /\ fatalTimes' = Append(fatalTimes, now)
  /\ UNCHANGED clock
  /\ UNCHANGED notProc

\* index.ts:53-87: handleUnhandledRejection(reason, promise); the reason is
\* made an Error first (54) and that Error is classified (59-65); the rest
\* is as in handleUncaughtException
handleUnhandledRejection(reason) ==
  /\ ~exited
  /\ handled' = [ handler |-> "unhandledRejection", error |-> reason,
                  transient |-> isRetryableDbError(ToError(reason)),
                  consecutiveFatalErrors |-> consecutiveFatalErrors,
                  lastFatalErrorTime |-> lastFatalErrorTime ]
  /\ IF isRetryableDbError(ToError(reason))
     THEN UNCHANGED <<consecutiveFatalErrors, lastFatalErrorTime, exited,
                      fatalTimes>>
     ELSE LET now == clock
              count == IF now - lastFatalErrorTime < FATAL_ERROR_WINDOW_MS
                       THEN consecutiveFatalErrors + 1
                       ELSE 1
          IN  /\ consecutiveFatalErrors' = count
              /\ lastFatalErrorTime' = now
              /\ exited' = (count >= MAX_CONSECUTIVE_FATAL_ERRORS)
              /\ fatalTimes' = Append(fatalTimes, now)
  /\ UNCHANGED clock
  /\ UNCHANGED notProc

\* time passes: Date.now() (29, 68) is later by half a window
Tick ==
  /\ ~exited
  /\ clock < FATAL_ERROR_WINDOW_MS * MaxWindows
  /\ clock' = clock + FATAL_ERROR_WINDOW_MS \div 2
  /\ UNCHANGED <<consecutiveFatalErrors, lastFatalErrorTime, exited, handled,
                 fatalTimes>>
  /\ UNCHANGED notProc

\* index.ts:90-91: the handlers are called with whatever is thrown or
\* rejected and not caught, in any order and at any time
NextProc ==
  \/ \E error \in Throwables : handleUncaughtException(error)
  \/ \E reason \in Throwables : handleUnhandledRejection(reason)
  \/ Tick

(***************************************************************************)
(* SPECIFICATIONS                                                          *)
(***************************************************************************)

vars == <<retryVars, dbVars, vecVars, syncVars, srchVars, procVars, applied, store>>

\* no call of removeServerToolEmbeddings was made; the process has started
\* (index.ts:10-13, the clock is past the first window) and no function
\* without state was called
InitSync ==
  /\ removesLeft = MaxRemoves
  /\ consecutiveFatalErrors = 0
  /\ lastFatalErrorTime = 0
  /\ exited = FALSE
  /\ clock = FATAL_ERROR_WINDOW_MS
  /\ handled = [ handler |-> "none", error |-> NoError, transient |-> FALSE,
                 consecutiveFatalErrors |-> 0, lastFatalErrorTime |-> 0 ]
  /\ fatalTimes = <<>>
  /\ applied = [fn |-> "none"]

\* an empty catalog and index, filters that pass everything, no request made
InitNoSrch ==
  /\ serverInfos = <<>>
  /\ filterToolsByConfigFn = ServerNames \X ToolNames
  /\ filterToolsByGroupFn = ServerNames \X ToolNames
  /\ group = "$smart"
  /\ serversInGroup = [found |-> FALSE, names |-> {}]
  /\ progressiveDisclosure = FALSE
  /\ hits = {}
  /\ response = [ state |-> "none", tools |-> {}, totalResults |-> 0,
       queryError |-> NoError, thrown |-> NoError,
       query |-> [type |-> "undefined", text |-> <<>>],
       limit |-> [kind |-> "undefined", value |-> 0],
       threshold |-> 0, limitNum |-> 0, searched |-> FALSE, isError |-> FALSE ]
  /\ described = [ state |-> "none", toolName |-> [type |-> "undefined", text |-> ""],
       serverName |-> "", inputSchema |-> {}, isError |-> FALSE, scanned |-> FALSE ]

\* the module is loaded; the run may make the given calls, ticks, closes and
\* URL changes
InitDb(calls, ticks, closes, urls) ==
  /\ InitDbState
  /\ left = [calls |-> calls, ticks |-> ticks, closes |-> closes, urls |-> urls]
  /\ store = [up |-> FALSE, beat |-> 0]

Init == InitRetry /\ InitDb(DbCalls, DbTicks, DbCloses, 0) /\ InitVec /\ savesLeft = MaxSaves /\ InitSync /\ InitNoSrch

\* initializeDatabase() alone, under a URL that may change
InitOnly ==
  InitRetry /\ InitDb(InitCalls, 0, 0, MaxUrlChanges) /\ InitVec /\ savesLeft = MaxSaves /\ InitSync /\ InitNoSrch

SpecInit == InitOnly /\ [][NextInit]_vars

\* the retry executor alone
SpecRetry == Init /\ [][NextRetry]_vars

\* the connection manager alone
SpecDb == Init /\ [][NextDb]_vars

\* part_002:400-402 (setInterval) and the event loop: the timer keeps firing
\* while it is set, and every await whose promise settles is resumed.  No
\* caller is bound to call, and the store is not bound to recover or to fail.
FairHeal ==
  /\ \A t \in PerfIds : /\ WF_vars(Perf_Config(t))
                         /\ WF_vars(Perf_Connected(t))
                         /\ WF_vars(Perf_SetupDone(t))
  /\ \A c \in Clients : WF_vars(Init_Resume(c))
  /\ \A r \in Recons : /\ WF_vars(Rc_DestroySettled(r))
                        /\ WF_vars(Rc_Config(r))
                        /\ WF_vars(Rc_InitOk(r))
                        /\ WF_vars(Rc_InitFailed(r))
                        /\ WF_vars(Rc_Wake(r))
  /\ \A h \in Probes : /\ WF_vars(Probe_Tick(h))
                        /\ WF_vars(Probe_QueryOk(h))

\* the connection manager left to itself, under the scheduling of the timer
\* and the event loop
SpecHeal == Init /\ [][NextHeal]_vars /\ FairHeal

\* the tool-embedding writer, calls overlapping
SpecVec == Init /\ [][NextVec]_vars

\* the tool-embedding writer, one call at a time
InitSeq ==
  InitRetry /\ InitDb(DbCalls, DbTicks, DbCloses, 0) /\ InitVec /\ savesLeft = SeqSaves /\ InitSync /\ InitNoSrch

SpecVecSeq == InitSeq /\ [][NextVecSeq]_vars

\* the discovery engine: search and describe requests against a catalog,
\* filters, a scope, a mode and an index that do not change
InitSearch ==
  InitRetry /\ InitDb(0, 0, 0, 0) /\ InitVec /\ savesLeft = 0 /\ InitSync /\ InitSrch

SpecSrch == InitSearch /\ [][NextSrch]_vars

\* the arguments of the requests, against an empty catalog and index
SpecArgs == Init /\ [][NextArgs]_vars

\* the process-level error handlers
SpecProc == Init /\ [][NextProc]_vars

\* calls of the functions without state
NextPure ==
  \/ createVectorIndex_Call
  \/ generateFallbackEmbedding_Call
  \/ searchToolsByVector_Call
  \/ BearerKeyRepository_Call

SpecPure == Init /\ [][NextPure]_vars

\* the listing of the discovery tools against the same catalogs and scopes
SpecList == InitSearch /\ [][getSmartRoutingTools]_vars

(***************************************************************************)
(* CLAIMS                                                                  *)
(***************************************************************************)

(***************************************************************************)
(* C1.  For a policy with maxRetries = N >= 0, withDbRetry invokes the     *)
(* operation until the first success, the first non-retryable error or     *)
(* N + 1 invocations: it never invokes it more than N + 1 times; every     *)
(* invocation but the first follows exactly one wait; when it re-raises    *)
(* after a retryable error the operation was invoked exactly N + 1 times;  *)
(* a non-retryable first error is re-raised after one invocation and no    *)
(* wait; and the error re-raised is the last error the operation threw.    *)
(***************************************************************************)
C1_RetryBudget ==
  LET N == MergeOptions(rOptions).maxRetries
  IN  /\ rCalls <= N + 1
      /\ rPc \in {"calling", "returned", "thrown"} => rSleeps = rCalls - 1
      /\ rPc = "sleeping" => rSleeps = rCalls /\ isRetryableDbError(rLast) /\ rCalls <= N
      /\ rPc = "returned" => rLast = NoError /\ rThrown = NoError
      /\ rPc = "thrown" =>
           /\ rLast # NoError
           /\ rLast.kind = "Error" => rThrown = rLast
           /\ isRetryableDbError(rLast) => rCalls = N + 1
           /\ (~isRetryableDbError(rLast) /\ rCalls = 1) => rSleeps = 0

\* a run that exhausted a policy of at least two retries on retryable errors
C1_Witness ==
  /\ rPc = "thrown"
  /\ isRetryableDbError(rLast)
  /\ MergeOptions(rOptions).maxRetries >= 2
  /\ rCalls = MergeOptions(rOptions).maxRetries + 1

(***************************************************************************)
(* C2.  initialize() is safe under concurrency: whatever calls of          *)
(* initializeDatabase() are made while an initialization is in flight, at  *)
(* most one performDatabaseInitialization started by initializeDatabase()  *)
(* is running, and every caller of initializeDatabase() that waits, waits  *)
(* for that same run.                                                      *)
(***************************************************************************)
C2_OneInitialization ==
  /\ Cardinality({t \in PerfIds : perf[t].pc # "free" /\ perf[t].owner = "initialize"}) <= 1
  /\ \A c, d \in Clients :
       (client[c].pc \in {"await", "shared"} /\ client[d].pc \in {"await", "shared"})
         => client[c].p = client[d].p

(***************************************************************************)
(* C3.  At most one reconnect runs at any time: no run of the reconnect    *)
(* loop (attemptReconnection, launched by a failed probe) and no explicit  *)
(* reconnect request (reconnectDatabase) overlaps another.                 *)
(***************************************************************************)
C3_OneReconnect ==
  Cardinality({r \in Recons : recon[r].pc # "idle"})
    + Cardinality({c \in Clients : client[c].op = "reconnect" /\ ~Returned(c)}) <= 1

(***************************************************************************)
(* C4.  Every step in which a periodic probe fails marks health unhealthy  *)
(* (isHealthy = false, lastHealthCheckError set) and, when no reconnect is *)
(* in progress, launches the reconnect loop (reconnecting becomes true).   *)
(***************************************************************************)
C4_FailedProbeReconnects ==
  [][ \A h \in Probes :
        (probe'[h] # probe[h] /\ probe'[h].pc = "failed")
          => /\ isHealthy' = FALSE
             /\ lastHealthCheckError' # NoError
             /\ ~reconnectionInProgress => reconnectionInProgress' ]_vars

(***************************************************************************)
(* C5.  close() is safe during an active reconnect: when closeDatabase()   *)
(* was called while the reconnect loop ran (and no client has called       *)
(* since), then once close() has returned and the loop has finished, the   *)
(* timer is stopped, connected = false and healthy = false.                *)
(***************************************************************************)
C5_CloseDuringReconnect ==
  (closer.duringReconnect /\ closer.pc = "done" /\ ~reconnectionInProgress)
    => /\ ~healthCheckInterval
       /\ ~getDatabaseHealth.connected
       /\ ~getDatabaseHealth.healthy

(***************************************************************************)
(* C6.  The reconnect loop is bounded: a run of attemptReconnection calls  *)
(* performDatabaseInitialization at most maxConnectionRetries times, and   *)
(* reconnecting is true exactly while a run is under way: every exit       *)
(* (success, exhaustion) leaves reconnecting = false.                      *)
(***************************************************************************)
C6_ReconnectBounded ==
  /\ \A r \in Recons :
       /\ recon[r].inits <= MaxConnectionRetries
       /\ recon[r].attempt <= MaxConnectionRetries
  /\ getDatabaseHealth.reconnecting <=> (\E r \in Recons : recon[r].pc # "idle")

\* a run that failed maxConnectionRetries times has ended
C6_Witness ==
  \E r \in Recons :
    /\ recon[r].pc = "idle"
    /\ recon[r].inits = MaxConnectionRetries
    /\ isRetryableDbError(lastHealthCheckError)
    /\ ~isHealthy
    /\ ~getDatabaseHealth.reconnecting

(***************************************************************************)
(* C7.  Dimension reconciliation is a critical section with respect to     *)
(* writes of another dimensionality: while one call is in the middle of    *)
(* its delete + alter + reindex sequence, no other call whose embedding    *)
(* has another length is in the middle of its dimension check or between   *)
(* its check and its record write.                                         *)
(***************************************************************************)
C7_CriticalSection ==
  \A s, t \in Savers :
    s # t =>
      ~ /\ saver[s].pc \in {"alter", "index"}
        /\ saver[s].currentDimensions # 0
        /\ saver[t].pc \in {"typmod", "recordcheck", "write"}
        /\ saver[t].embedding # saver[s].embedding

(***************************************************************************)
(* C8.  When a call needs dimensions that differ from the column's         *)
(* configured non-zero width, it deletes exactly the records whose         *)
(* dimensions differ from the needed ones and keeps the others, then sets  *)
(* the column width to the needed value, then builds the index for that    *)
(* value: each step does this and nothing else, and the steps come in this *)
(* order.                                                                  *)
(***************************************************************************)
C8_Reconciliation ==
  [][ \A s \in Savers :
        LET needed == saver[s].embedding
            pc == saver[s].pc
            after == saver'[s].pc
        IN  /\ (pc = "recordcheck" /\ after # pc
                  /\ saver'[s].currentDimensions \notin {0, needed})
                 => after = "delete"
            /\ (pc = "delete" /\ after = "alter")
                 => /\ records' = [k \in EntityKeys |->
                                     IF records[k] = needed THEN records[k] ELSE 0]
                    /\ colWidth' = colWidth
                    /\ index' = index
            /\ (pc = "alter" /\ after = "index")
                 => /\ colWidth' = needed
                    /\ records' = records
                    /\ index' = index
            /\ (pc = "index" /\ after = "write")
                 => /\ index'.dimensions = needed
                    /\ records' = records
                    /\ colWidth' = colWidth
            /\ (after = "alter" /\ pc # after /\ saver'[s].currentDimensions # 0)
                 => pc = "delete"
            /\ (after = "index" /\ pc # after) => pc = "alter"
            /\ (after = "write" /\ pc # after /\ pc # "recordcheck") => pc = "index"
    ]_vars

\* a DELETE of a reconciliation has removed records and kept others
C8_Witness ==
  \E s \in Savers :
    /\ saver[s].pc = "alter"
    /\ saver[s].currentDimensions \notin {0, saver[s].embedding}
    /\ saver[s].cleared
    /\ saver[s].kept

(***************************************************************************)
(* C9.  With one call at a time: whenever no call is in progress, all      *)
(* stored records have the same dimensions and these equal the column's    *)
(* configured width; records of different dimensions coexist only while a  *)
(* reconciliation is running.                                              *)
(***************************************************************************)
C9_SteadyState ==
  /\ (\A s \in Savers : SaveOver(s))
       => \A k \in EntityKeys : records[k] # 0 => records[k] = colWidth
  /\ Cardinality(StoredDimensions) > 1
       => \E s \in Savers : saver[s].pc \in {"delete", "alter", "index"}

\* a call that replaced records of another dimensionality has returned
C9_Witness ==
  /\ \A s \in Savers : SaveOver(s)
  /\ \E s \in Savers : saver[s].pc = "done" /\ saver[s].cleared
  /\ \E k \in EntityKeys : records[k] # 0

(***************************************************************************)
(* C10.  Saving a backend's tool list is a full replace per backend: when  *)
(* saveToolsAsVectorEmbeddings(backend, tools) has completed without       *)
(* error, the stored records with a key backend:<tool> are exactly those   *)
(* of the tools in the list.                                               *)
(***************************************************************************)
C10_FullReplace ==
  \A s \in Savers :
    saver[s].pc = "done"
      => \A t \in ToolNames :
           records[EntityKey(saver[s].serverName, t)] # 0
             <=> \E i \in DOMAIN saver[s].given : saver[s].given[i] = t


\* C11: when removeServerToolEmbeddings(backend) completes, no record of that
\* backend remains in the store (so no later similarity query can return one
\* of its tools).
C11_RemovalDeletes ==
  [][\A b \in ServerNames :
       removeServerToolEmbeddings(b)
         => \A t \in ToolNames : records'[EntityKey(b, t)] = 0]_vars

\* C12: an embedding-provider error costs the save of that one tool only:
\* when a call of saveToolsAsVectorEmbeddings ends after generateEmbedding
\* failed for the k-th tool of its list, every other tool of the list,
\* before and after k, has a record in the store.
C12_OtherToolsSaved ==
  [][\A s \in Savers :
       Save_EmbedFailed(s) /\ saver'[s].pc = "failed"
         => LET k == Len(saver[s].given) - Len(saver[s].tools) + 1
            IN  \A i \in DOMAIN saver[s].given :
                  i # k => records'[EntityKey(saver[s].serverName,
                                              saver[s].given[i])] # 0]_vars

\* C14: a statement of the dimension reconciliation (the width lookup, the
\* DELETE of the mismatched records, the ALTER of the column) that fails
\* with a retryable error is attempted again under the retry policy: its
\* first failure does not end the save.
C14_ReconcileRetried ==
  [][\A s \in Savers, error \in DbErrors :
       /\ saver[s].pc \in {"typmod", "delete", "alter"}
       /\ isRetryableDbError(error)
       /\ Save_StatementFailed(s, error)
       => saver'[s].pc # "failed"]_vars

\* C13: a search request never fails because of a transient storage error:
\* when the similarity query throws a retryable error (a connection reset),
\* handleSearchToolsRequest returns a normal response and the error is not
\* thrown to the search caller.
C13_SearchSurvivesTransient ==
  response.state # "none" /\ isRetryableDbError(response.queryError)
    => response.state = "returned" /\ response.thrown = NoError

\* a request whose similarity query threw the connection reset has returned
C13_Witness ==
  response.queryError = ErrReset /\ response.state = "returned"

\* C15: a tool that is in the index but not in the live catalog (its server
\* is not listed, not connected or disabled, or no longer lists the tool)
\* never appears in a search response.
C15_OnlyLiveTools ==
  response.state = "returned"
    => \A t \in response.tools :
         ActualTool([serverName |-> t.serverName, toolName |-> t.name])

\* C16: every tool of a search response passes, at the time of the search,
\* the configuration filter of its server and the group filter of the
\* resolved scope; a hit that fails either filter is not in the response.
C16_ResponseFiltered ==
  response.state = "returned"
    => \A t \in response.tools :
         /\ <<t.serverName, t.name>> \in filterToolsByConfigFn
         /\ <<t.serverName, t.name>> \in filterToolsByGroupFn

\* the similarity query gave two hits, one that the group filter alone
\* rejects and one that both filters pass, and the response holds the second
C16_Witness ==
  /\ response.state = "returned" /\ response.queryError = NoError
  /\ response.tools # {}
  /\ \E h \in hits :
       /\ <<h.serverName, h.toolName>> \in filterToolsByConfigFn
       /\ <<h.serverName, h.toolName>> \notin filterToolsByGroupFn
       /\ ~(group = "$smart/g" /\ serversInGroup.found
              /\ serversInGroup.names # {} /\ h.serverName \notin serversInGroup.names)

\* C17: in progressive mode, with catalog, configuration and scope
\* unchanged, describe_tool called with a tool name that search_tools
\* returned gives that tool's full schema, never the not-found error, and
\* the schema has no "$schema" key.
C17_SearchThenDescribe ==
  /\ progressiveDisclosure
  /\ response.state = "returned"
  /\ described.state # "none"
  /\ \E t \in response.tools : t.name = described.toolName.text
  => described.state = "found" /\ "$schema" \notin described.inputSchema

\* C18: in standard (non-progressive) mode every tool of a search response
\* carries an inputSchema without the "$schema" key, whether the tool was
\* resolved from the live catalog or taken from the index metadata.
C18_StandardSchemaClean ==
  ~progressiveDisclosure /\ response.state = "returned"
    => \A t \in response.tools :
         t.hasInputSchema /\ "$schema" \notin t.inputSchema

\* C19: in progressive-disclosure mode no tool of a search response has an
\* inputSchema field, whether it was resolved from the live catalog or from
\* the index metadata.
C19_ProgressiveNoSchema ==
  progressiveDisclosure /\ response.state = "returned"
    => \A t \in response.tools : ~t.hasInputSchema

\* a progressive-mode response with a tool resolved from the live catalog
\* and a tool taken from the index metadata
C19_Witness ==
  /\ progressiveDisclosure /\ response.state = "returned"
  /\ \E t, u \in response.tools :
       /\ ActualTool([serverName |-> t.serverName, toolName |-> t.name])
       /\ ~ActualTool([serverName |-> u.serverName, toolName |-> u.name])

\* C20: a search scoped to an existing group that has no member server
\* returns an empty result set (tools = [], totalResults = 0) and never an
\* error, whatever the index contains.
C20_EmptyGroupEmptyResult ==
  /\ group = "$smart/g"
  /\ serversInGroup.found /\ serversInGroup.names = {}
  /\ response.state # "none" /\ response.searched
  => /\ response.state = "returned"
     /\ response.tools = {} /\ response.totalResults = 0

\* C21: a group-scoped listing of the discovery tools names, in the
\* available-servers list of the search_tools description, only connected,
\* enabled members of the scoped group (a group that exists); for a group
\* without members no server is listed.
C21_ListingScoped ==
  /\ applied.fn = "getSmartRoutingTools"
  /\ group = "$smart/g" /\ serversInGroup.found
  => \A b \in applied.serversList :
       /\ serverInfos[b].status = "connected" /\ serverInfos[b].enabled
       /\ b \in serversInGroup.names


\* C22: the similarity threshold of a search depends on the query text
\* alone and is 0.2, 0.3 or 0.4 (here in tenths): 0.4 for a query of more
\* than 30 characters or containing "specific" or "exact", also when the
\* query is short; else 0.2 for a query of fewer than 10 characters or of at
\* most 2 words (the pieces between its spaces); else 0.3.
C22_ThresholdRule ==
  response.searched =>
    LET q == response.query.text
        spaces == { i \in 1 .. Len(q) : q[i] = " " }
        has(pat) == \E i \in 1 .. Len(q) : \E j \in i .. Len(q) :
                      SubSeq(q, i, j) = pat
        precise == Len(q) > 30 \/ has(<<"s", "p", "e", "c", "i", "f", "i", "c">>) \/ has(<<"e", "x", "a", "c", "t">>)
        short == Len(q) < 10 \/ Cardinality(spaces) < 2
    IN  /\ response.threshold \in {2, 3, 4}
        /\ precise => response.threshold = 4
        /\ short /\ ~precise => response.threshold = 2
        /\ ~short /\ ~precise => response.threshold = 3

\* a search with the query "exact", which is short and precise, used 0.4
C22_Witness ==
  /\ response.searched /\ response.query.text = <<"e", "x", "a", "c", "t">>
  /\ response.threshold = 4

\* C23: the effective limit of a search is min(max(limit, 1), 100) for every
\* integer limit, 0 and negative values included, and 10 when the limit is
\* absent or not a number.
C23_LimitClamped ==
  response.searched =>
    response.limitNum =
      IF response.limit.kind = "number"
      THEN Min(Max(response.limit.value, 1), 100)
      ELSE 10

\* C24: describe_tool with a tool name returns the tool of the first server
\* in catalog order (a before b) that is connected and enabled, lists the
\* tool and whose tool passes the configuration and the group filter; when
\* there is no such server it returns the not-found payload with isError
\* true; it never throws.
C24_DescribeFirstMatch ==
  described.state # "none" /\ described.toolName.type = "string"
    /\ described.toolName.text # ""
  => LET name == described.toolName.text
         ok(b) == /\ b \in DOMAIN serverInfos
                  /\ serverInfos[b].status = "connected" /\ serverInfos[b].enabled
                  /\ name \in DOMAIN serverInfos[b].tools
                  /\ <<b, name>> \in filterToolsByConfigFn
                  /\ <<b, name>> \in filterToolsByGroupFn
     IN  /\ described.state # "thrown"
         /\ ok("a") => /\ described.state = "found" /\ ~described.isError
                       /\ described.serverName = "a"
         /\ ~ok("a") /\ ok("b") => /\ described.state = "found" /\ ~described.isError
                                   /\ described.serverName = "b"
         /\ ~ok("a") /\ ~ok("b") => described.state = "notfound" /\ described.isError

\* both servers offer the tool asked for and the one of server a is returned
C24_Witness ==
  /\ described.state = "found" /\ described.serverName = "a"
  /\ \A b \in {"a", "b"} :
       /\ ActualTool([serverName |-> b, toolName |-> described.toolName.text])
       /\ <<b, described.toolName.text>> \in filterToolsByConfigFn
       /\ <<b, described.toolName.text>> \in filterToolsByGroupFn

\* C25: a search whose query is missing, empty or not a string, and a
\* describe whose tool name is missing, empty or not a string, give the
\* caller a result with isError true, and no similarity search and no scan
\* of the catalog is made for it.
C25_InputErrorResult ==
  /\ response.state # "none"
       /\ (response.query.type # "string" \/ response.query.text = <<>>)
     => response.isError /\ ~response.searched
  /\ described.state # "none"
       /\ (described.toolName.type # "string" \/ described.toolName.text = "")
     => described.isError /\ ~described.scanned

\* a search with a number as its query and a describe without a tool name
\* have both been answered with an error result
C25_Witness ==
  /\ response.query.type = "number" /\ response.isError
  /\ described.toolName.type = "undefined" /\ described.isError


\* C26: createVectorIndex chooses the index by the dimensions when the
\* store accepts the statement: hnsw up to 2000 dimensions, hnsw-halfvec
\* above 2000 and up to 4000, and above 4000 no index, without any CREATE
\* INDEX statement issued.
C26_IndexByDimensions ==
  applied.fn = "createVectorIndex" =>
    LET d == applied.dimensions
        r == applied.result
    IN  /\ d <= 2000 /\ applied.hnsw
             => r.success /\ r.indexType = "hnsw"
        /\ 2000 < d /\ d <= 4000 /\ applied.halfvec
             => r.success /\ r.indexType = "hnsw-halfvec"
        /\ d > 4000
             => /\ ~r.success /\ r.indexType = "null"
                /\ r.statements = <<"DROP INDEX">>

\* a call with exactly 2000 dimensions built the hnsw index
C26_Witness ==
  /\ applied.fn = "createVectorIndex"
  /\ applied.dimensions = 2000 /\ applied.result.indexType = "hnsw"

\* C27: createVectorIndex never throws, whichever of its statements fail,
\* the first DROP INDEX included; up to 2000 dimensions a failed hnsw
\* statement is followed by one ivfflat statement, and when both fail the
\* result is success = false with indexType null; above 2000 and up to 4000
\* dimensions a failed halfvec statement gives no index and no other
\* statement is issued.
C27_IndexNeverRaises ==
  applied.fn = "createVectorIndex" =>
    LET d == applied.dimensions
        r == applied.result
    IN  /\ ~r.raised
        /\ d <= 2000 /\ ~applied.hnsw
             => /\ r.statements = <<"DROP INDEX", "CREATE INDEX hnsw",
                                    "CREATE INDEX ivfflat">>
                /\ ~applied.ivfflat => ~r.success /\ r.indexType = "null"
        /\ 2000 < d /\ d <= 4000 /\ ~applied.halfvec
             => /\ r.statements = <<"DROP INDEX", "CREATE INDEX hnsw halfvec">>
                /\ ~r.success /\ r.indexType = "null"

\* a call in which the drop and both index statements failed has returned
\* without an index
C27_Witness ==
  /\ applied.fn = "createVectorIndex"
  /\ applied.dimensions <= 2000
  /\ ~applied.drop /\ ~applied.hnsw /\ ~applied.ivfflat
  /\ ~applied.result.success /\ ~applied.result.raised


\* C28 (as stated): the delay withDbRetry waits after the failed attempt is
\* min(initialDelayMs * backoffMultiplier^(attempt-1), maxDelayMs) when
\* jitter is disabled and, when jitter is enabled, a value that is not
\* negative and within 25% below or above that value.
C28_DelayWithinQuarter ==
  rPc = "sleeping" =>
    LET o == MergeOptions(rOptions)
        c == Min(o.initialDelayMs * Pow(o.backoffMultiplier, rAttempt - 1),
                 o.maxDelayMs)
    IN  IF o.jitter
        THEN rDelay >= 0 /\ 3 * c <= 4 * rDelay /\ 4 * rDelay <= 5 * c
        ELSE rDelay = c

\* C28 (amended): the delay withDbRetry waits after the failed attempt is
\* min(initialDelayMs * backoffMultiplier^(attempt-1), maxDelayMs) when
\* jitter is disabled and, when jitter is enabled, a whole number of
\* milliseconds that is not negative and at most half a millisecond outside
\* the range from 25% below to 25% above that value.
C28_DelayRounded ==
  rPc = "sleeping" =>
    LET o == MergeOptions(rOptions)
        c == Min(o.initialDelayMs * Pow(o.backoffMultiplier, rAttempt - 1),
                 o.maxDelayMs)
    IN  IF o.jitter
        THEN rDelay >= 0 /\ 3 * c - 2 <= 4 * rDelay /\ 4 * rDelay <= 5 * c + 2
        ELSE rDelay = c

\* a call with jitter sleeps 5 ms after its second failure, the capped
\* delay being 7 ms; and the second failure comes after a first sleep
C28_Witness ==
  /\ rPc = "sleeping" /\ rAttempt = 2
  /\ MergeOptions(rOptions).jitter /\ MergeOptions(rOptions).maxDelayMs = 7
  /\ rDelay = 5

\* C29: the delay withDbRetry sleeps, and reports to onRetry, is at most
\* maxDelayMs, with jitter enabled or disabled, after every attempt.
C29_DelayAtMostMax ==
  /\ rPc = "sleeping" => rDelay <= MergeOptions(rOptions).maxDelayMs
  /\ \A i \in DOMAIN rOnRetry : rOnRetry[i][2] <= MergeOptions(rOptions).maxDelayMs


\* C30: an uncaught exception or unhandled rejection that the handler
\* classifies as a retryable database error never ends the process, however
\* many of them come and whenever, and leaves consecutiveFatalErrors and
\* lastFatalErrorTime as they were.
C30_TransientSurvives ==
  handled.handler # "none" /\ handled.transient
    => /\ ~exited
       /\ consecutiveFatalErrors = handled.consecutiveFatalErrors
       /\ lastFatalErrorTime = handled.lastFatalErrorTime

\* a connection reset was handled when four fatal errors had been counted
\* in the window, and the process goes on with the count at four
C30_Witness ==
  /\ handled.transient /\ handled.error = ErrReset
  /\ consecutiveFatalErrors = MAX_CONSECUTIVE_FATAL_ERRORS - 1
  /\ clock - lastFatalErrorTime < FATAL_ERROR_WINDOW_MS
  /\ ~exited


\* C31: the handlers call process.exit only when more than 5 errors that
\* are not retryable (uncaught exceptions and unhandled rejections counted
\* together) have come within one window of 60 seconds: never for fewer
\* errors and never for errors spread over a longer time.
C31_ExitAboveThreshold ==
  exited =>
    Cardinality({ i \in DOMAIN fatalTimes :
                    clock - fatalTimes[i] < FATAL_ERROR_WINDOW_MS })
      > MAX_CONSECUTIVE_FATAL_ERRORS


C33_OnRetryPerRetry ==
  LET o == MergeOptions(rOptions)
      n == Len(rOnRetry)
  IN  rPc # "idle" /\ o.onRetry =>
        /\ \A i \in 1 .. n : rOnRetry[i][1] = i /\ i <= o.maxRetries
        /\ n = rSleeps
        /\ rPc = "sleeping" => n = rCalls /\ rOnRetry[n] = <<rAttempt, rDelay>>
        /\ rPc \in {"calling", "returned", "thrown"} => n = rCalls - 1
        /\ rPc = "thrown" /\ isRetryableDbError(rLast) => n = o.maxRetries

\* a call with maxRetries = 2 has failed three times with a retryable error
\* and is given up, onRetry having been called for attempts 1 and 2
C33_Witness ==
  /\ rPc = "thrown" /\ isRetryableDbError(rLast)
  /\ MergeOptions(rOptions).onRetry /\ MergeOptions(rOptions).maxRetries = 2
  /\ Len(rOnRetry) = 2 /\ rCalls = 3


\* C34: a failed initialization does not poison the guard of
\* initializeDatabase: in the step in which an initialization fails every
\* caller awaiting it gets the error; the failure and its handling leave
\* isHealthy and the health-check timer as they were (not healthy, no
\* timer, when nothing else succeeded); the caller that started the attempt
\* resets the promise, so that the promise is rejected only until that
\* caller has handled the error, and a call made after that never returns
\* the failed attempt's error.
C34_FailureNotPoisoning ==
  /\ [](initializationPromise.st = "rejected"
          => \E c \in Clients : client[c].pc = "gotErr")
  /\ [][ /\ \A t \in PerfIds :
              perf[t].pc = "connect" /\ perf'[t].pc = "free"
                => /\ \A c \in Clients :
                        client[c].p = t /\ client[c].pc \in {"await", "shared"}
                          => client'[c].pc \in {"gotErr", "retErr"}
                   /\ isHealthy' = isHealthy
                   /\ healthCheckInterval' = healthCheckInterval
         /\ \A c \in Clients :
              client[c].pc = "gotErr" /\ client'[c].pc = "retErr"
                => /\ isHealthy' = isHealthy
                   /\ healthCheckInterval' = healthCheckInterval
                   /\ initializationPromise' = NullPromise
         /\ \A c \in Clients :
              /\ Returned(c) /\ client'[c] # client[c]
              /\ \A d \in Clients : client[d].pc # "gotErr"
              => client'[c].pc # "retErr" ]_vars

\* a caller has got the error of its failed attempt, nothing is healthy and
\* no timer runs, and the next caller waits for a new attempt
C34_Witness ==
  /\ \E c, d \in Clients :
       /\ client[c].pc = "retErr"
       /\ client[d].pc = "await" /\ initializationPromise = Pending(client[d].p)
  /\ ~isHealthy /\ ~healthCheckInterval


\* C35: initialize() and the reconnect loop together have at most one
\* connection initialization in flight: while a performDatabaseInitialization
\* started by attemptReconnection is running, none started by
\* initializeDatabase() is running.
C35_OneInitializationInFlight ==
  ~ \E t, u \in PerfIds :
      /\ perf[t].pc # "free" /\ perf[t].owner = "attemptReconnection"
      /\ perf[u].pc # "free" /\ perf[u].owner = "initialize"

\* C36: a call of initializeDatabase() that resolves leaves the connection
\* established; in particular a call made after closeDatabase() has
\* returned, with no other call and no reconnection under way, does not
\* resolve with the closed connection.
C36_ResolvedMeansConnected ==
  [][ \A c \in Clients :
        /\ NextCaller(c) /\ left'.calls < left.calls
        /\ closer.pc = "done" /\ ~reconnectionInProgress
        /\ \A d \in Clients : Returned(d)
        /\ client'[c].op = "initialize" /\ client'[c].pc = "retOk"
        => getDatabaseHealth'.connected ]_vars


\* C38: in every reachable state of the connection manager, under any
\* interleaving of initialize, probes, reconnect and close, a health
\* snapshot with healthy = true has connected = true.
C38_HealthyImpliesConnected ==
  getDatabaseHealth.healthy => getDatabaseHealth.connected

\* C37: once a probe has failed or a reconnect loop has given up, and the
\* store is reachable for good, the timer alone leads to a snapshot with
\* connected = true and healthy = true
C37_HealthRestored ==
  (store.up /\ healthCheckInterval /\ lastHealthCheckError # NoError)
    ~> (getDatabaseHealth.connected /\ getDatabaseHealth.healthy)

\* C39: a search scoped to a group's servers returns the limit most similar
\* records of those servers that clear the threshold, all of them when they
\* are fewer: no record of a server outside the group takes the place of
\* one of a server inside
C39_InScopeNotCrowdedOut ==
  (applied.fn = "searchToolsByVector" /\ applied.serverNames.given
     /\ applied.serverNames.names # {})
  => LET inScope(rec) == rec[1] \in applied.serverNames.names
         scoped == SelectSeq(applied.ranked, inScope)
     IN  applied.results = SubSeq(scoped, 1, Min(applied.limit, Len(scoped)))

\* C40: one call of a repository method made with maxRetries = N sends each
\* of its queries at most N + 1 times, the lookup of update among them
C40_LookupWithinBudget ==
  applied.fn \in {"BearerKeyRepository.findById", "BearerKeyRepository.update"}
  => applied.result.lookups <= applied.maxRetries + 1


=============================================================================
